---- MODULE Spec2Model ----
(***************************************************************************)
(* A model of the HTTP-to-MongoDB bridge: the extended-JSON codec of       *)
(* handlers/handlers.go (deserializeInput, serializeOutput), the nine      *)
(* operation handlers, the two middlewares of main.go and db/db.go.        *)
(*                                                                         *)
(* Numbers do not fit TLC's 32-bit integers (1e10, 2^63, epoch-millis),    *)
(* so an integer is a sequence of decimal digits, most significant first,  *)
(* and a float64 is its shortest decimal representation mant * 10^e10      *)
(* (what strconv.FormatFloat(f, _, -1, 64) prints and strconv.ParseFloat   *)
(* reads back; exact for literals of at most 15 significant digits and for *)
(* integers below 2^65, which is all the values drawn below).              *)
(* A string is a sequence of one-character strings; object keys are        *)
(* atomic strings ordered by KeyOrder (their byte order).                  *)
(***************************************************************************)
EXTENDS Integers, Sequences, FiniteSets, TLC

-----------------------------------------------------------------------------
(* Decimal digit strings                                                   *)

Zeros(n) == [i \in 1..n |-> 0]

RECURSIVE StripLeadingZeros(_)
StripLeadingZeros(ds) ==
    IF Len(ds) > 1 /\ Head(ds) = 0 THEN StripLeadingZeros(Tail(ds)) ELSE ds

NormDigits(ds) == IF ds = <<>> THEN <<0>> ELSE StripLeadingZeros(ds)

RECURSIVE TrailingZeroCount(_)
TrailingZeroCount(ds) ==
    IF Len(ds) > 1 /\ ds[Len(ds)] = 0
    THEN 1 + TrailingZeroCount(SubSeq(ds, 1, Len(ds) - 1))
    ELSE 0

\* a < b for digit strings without leading zeros
DigitsLess(a, b) ==
    \/ Len(a) < Len(b)
    \/ /\ Len(a) = Len(b)
       /\ \E i \in 1..Len(a) :
            /\ a[i] < b[i]
            /\ \A j \in 1..(i - 1) : a[j] = b[j]

DigitsLeq(a, b) == a = b \/ DigitsLess(a, b)

\* the digits of a small natural number
RECURSIVE NatDigits(_)
NatDigits(n) == IF n < 10 THEN <<n>> ELSE Append(NatDigits(n \div 10), n % 10)

\* the small natural number a digit string denotes (callers keep it below 2^31)
RECURSIVE DigitsNat(_)
DigitsNat(ds) ==
    IF ds = <<>> THEN 0 ELSE DigitsNat(SubSeq(ds, 1, Len(ds) - 1)) * 10 + ds[Len(ds)]

\* ds * m, for a small factor m (each step stays below 2^31 for m < 10^8)
RECURSIVE MulSmallCarry(_, _, _)
MulSmallCarry(ds, m, carry) ==
    IF ds = <<>>
    THEN (IF carry = 0 THEN <<>> ELSE NatDigits(carry))
    ELSE LET p == ds[Len(ds)] * m + carry
         IN  Append(MulSmallCarry(SubSeq(ds, 1, Len(ds) - 1), m, p \div 10), p % 10)

DigitsMulSmall(ds, m) == NormDigits(MulSmallCarry(ds, m, 0))

\* <<quotient digits, remainder>> of ds by a small divisor m (m < 2 * 10^8)
RECURSIVE DivSmallStep(_, _, _, _)
DivSmallStep(ds, m, q, r) ==
    IF ds = <<>>
    THEN <<NormDigits(q), r>>
    ELSE LET cur == r * 10 + Head(ds)
         IN  DivSmallStep(Tail(ds), m, Append(q, cur \div m), cur % m)

DigitsDivMod(ds, m) == DivSmallStep(ds, m, <<>>, 0)

\* a + b and a - b (a >= b) on digit strings, right-aligned
PadTo(ds, n) == Zeros(n - Len(ds)) \o ds

RECURSIVE AddAligned(_, _, _)
AddAligned(a, b, carry) ==
    IF a = <<>>
    THEN (IF carry = 0 THEN <<>> ELSE <<carry>>)
    ELSE LET s == a[Len(a)] + b[Len(b)] + carry
         IN  Append(AddAligned(SubSeq(a, 1, Len(a) - 1), SubSeq(b, 1, Len(b) - 1),
                               s \div 10), s % 10)

DigitsAdd(a, b) ==
    LET n == IF Len(a) > Len(b) THEN Len(a) ELSE Len(b)
    IN  NormDigits(AddAligned(PadTo(a, n), PadTo(b, n), 0))

RECURSIVE SubAligned(_, _, _)
SubAligned(a, b, borrow) ==
    IF a = <<>>
    THEN <<>>
    ELSE LET d == a[Len(a)] - b[Len(b)] - borrow
         IN  Append(SubAligned(SubSeq(a, 1, Len(a) - 1), SubSeq(b, 1, Len(b) - 1),
                               IF d < 0 THEN 1 ELSE 0),
                    IF d < 0 THEN d + 10 ELSE d)

DigitsSub(a, b) == NormDigits(SubAligned(a, PadTo(b, Len(a)), 0))

\* signed integers: [neg, mag]; zero is never negative
MkInt(neg, mag) ==
    LET m == NormDigits(mag) IN [neg |-> neg /\ m # <<0>>, mag |-> m]

MaxInt32Mag == <<2,1,4,7,4,8,3,6,4,7>>
MinInt32Mag == <<2,1,4,7,4,8,3,6,4,8>>
MaxInt64Mag == <<9,2,2,3,3,7,2,0,3,6,8,5,4,7,7,5,8,0,7>>
MinInt64Mag == <<9,2,2,3,3,7,2,0,3,6,8,5,4,7,7,5,8,0,8>>

FitsInt32(i) == DigitsLeq(i.mag, IF i.neg THEN MinInt32Mag ELSE MaxInt32Mag)
FitsInt64(i) == DigitsLeq(i.mag, IF i.neg THEN MinInt64Mag ELSE MaxInt64Mag)

-----------------------------------------------------------------------------
(* Number literals (JSON text) and float64 values                          *)

\* a JSON number as written: sign, integer digits, fraction digits (<<>> when
\* there is no fractional part), and an exponent part when hasExp
NumLit(neg, int, frac, hasExp, exp) ==
    [t |-> "num", neg |-> neg, int |-> int, frac |-> frac, hasExp |-> hasExp, exp |-> exp]

IntLit(i) == NumLit(i.neg, i.mag, <<>>, FALSE, 0)

\* float64 values: finite ones as shortest decimal mant * 10^e10
FNaN == [kind |-> "nan"]
FInf(neg) == [kind |-> "inf", neg |-> neg]
FFin(neg, mant, e10) == [kind |-> "fin", neg |-> neg, mant |-> mant, e10 |-> e10]
FZero == FFin(FALSE, <<0>>, 0)

\* the digits of 2^53, 2^54, ..., 2^65
Pow2Table ==
    <<
      <<9,0,0,7,1,9,9,2,5,4,7,4,0,9,9,2>>,
      <<1,8,0,1,4,3,9,8,5,0,9,4,8,1,9,8,4>>,
      <<3,6,0,2,8,7,9,7,0,1,8,9,6,3,9,6,8>>,
      <<7,2,0,5,7,5,9,4,0,3,7,9,2,7,9,3,6>>,
      <<1,4,4,1,1,5,1,8,8,0,7,5,8,5,5,8,7,2>>,
      <<2,8,8,2,3,0,3,7,6,1,5,1,7,1,1,7,4,4>>,
      <<5,7,6,4,6,0,7,5,2,3,0,3,4,2,3,4,8,8>>,
      <<1,1,5,2,9,2,1,5,0,4,6,0,6,8,4,6,9,7,6>>,
      <<2,3,0,5,8,4,3,0,0,9,2,1,3,6,9,3,9,5,2>>,
      <<4,6,1,1,6,8,6,0,1,8,4,2,7,3,8,7,9,0,4>>,
      <<9,2,2,3,3,7,2,0,3,6,8,5,4,7,7,5,8,0,8>>,
      <<1,8,4,4,6,7,4,4,0,7,3,7,0,9,5,5,1,6,1,6>>,
      <<3,6,8,9,3,4,8,8,1,4,7,4,1,9,1,0,3,2,3,2>> >>
Pow2Digits(k) == Pow2Table[k - 52]

\* the k with 2^k <= n < 2^(k+1), for 2^53 <= n < 2^65
Binade(n) ==
    CHOOSE k \in 53..64 : DigitsLeq(Pow2Digits(k), n) /\ DigitsLess(n, Pow2Digits(k + 1))

\* the spacing of the float64 values around n, 2^53 <= n < 2^65
Spacing(n) == 2 ^ (Binade(n) - 52)

\* n rounded to a multiple of the spacing s, given <<n div s, n mod s>>: up when
\* the remainder is more than half of s, a tie to the even multiple
RoundToEven(qr, s) ==
    IF 2 * qr[2] > s \/ (2 * qr[2] = s /\ qr[1][Len(qr[1])] % 2 = 1)
    THEN DigitsMulSmall(DigitsAdd(qr[1], <<1>>), s)
    ELSE DigitsMulSmall(qr[1], s)

\* the float64 nearest to the integer n, 2^53 <= n < 2^65
NearestTo(n, s) == RoundToEven(DigitsDivMod(n, s), s)
NearestFloat(n) == NearestTo(n, Spacing(n))

\* c2 lies between lo2 and hi2, the ends included when closed
Between(c2, lo2, hi2, closed) ==
    /\ DigitsLess(lo2, c2) \/ (closed /\ lo2 = c2)
    /\ DigitsLess(c2, hi2) \/ (closed /\ c2 = hi2)

\* the decimals that read back as the float64 v of spacing s lie between the
\* midpoints to v's two neighbours (the one below is half as far when v is a
\* power of two), the midpoints included when v's mantissa v div s is even:
\* the two midpoints, doubled to stay in whole numbers, and whether they count
WindowFrom(v2, s, below, q) ==
    <<DigitsSub(v2, NatDigits(below)), DigitsAdd(v2, NatDigits(s)), q[Len(q)] % 2 = 0>>
Window(v, s) ==
    WindowFrom(DigitsMulSmall(v, 2), s,
               IF v = Pow2Digits(Binade(v)) THEN s \div 2 ELSE s,
               DigitsDivMod(v, s)[1])

\* whether the decimal c reads back as the float64 of the window w
ReadsBack(c, w) == Between(DigitsMulSmall(c, 2), w[1], w[2], w[3])

\* v cut to d digits, and the next number of d digits above it
CutDown(v, d) == SubSeq(v, 1, d) \o Zeros(Len(v) - d)
CutUp(v, d) == DigitsAdd(CutDown(v, d), <<1>> \o Zeros(Len(v) - d))

\* of the two numbers around v, the one that reads back as v, the closer one
\* when both do
Closer(v, down, up, downOk, upOk) ==
    IF ~upOk THEN down
    ELSE IF ~downOk THEN up
    ELSE IF DigitsLeq(DigitsSub(v, down), DigitsSub(up, v)) THEN down
    ELSE up

\* strconv's shortest digits of the float64 v: the fewest digits that read back
\* as v, looked for from d digits up
RECURSIVE ShortestFrom(_, _, _)
ShortestFrom(v, w, d) ==
    IF ReadsBack(CutDown(v, d), w) \/ ReadsBack(CutUp(v, d), w)
    THEN Closer(v, CutDown(v, d), CutUp(v, d),
                ReadsBack(CutDown(v, d), w), ReadsBack(CutUp(v, d), w))
    ELSE ShortestFrom(v, w, d + 1)
ShortestDigits(v) == ShortestFrom(v, Window(v, Spacing(v)), 1)

\* the float64 of the significant digits sig * 10^e: the digits themselves when
\* they are at most 15 or an integer below 2^53; an integer n from 2^53 up
\* (below 2^65) is rounded to the nearest float64
Shortened(neg, short, tz) == FFin(neg, SubSeq(short, 1, Len(short) - tz), tz)
Rounded(neg, short) == Shortened(neg, short, TrailingZeroCount(short))
FloatOfInt(neg, sig, e, n) ==
    IF DigitsLess(n, Pow2Digits(53)) \/ DigitsLeq(Pow2Digits(65), n)
    THEN FFin(neg, sig, e)
    ELSE Rounded(neg, ShortestDigits(NearestFloat(n)))
FloatOfSig(neg, sig, e) ==
    IF Len(sig) <= 15 \/ e < 0 THEN FFin(neg, sig, e)
    ELSE FloatOfInt(neg, sig, e, sig \o Zeros(e))
FloatOfNorm(neg, all, e, tz) ==
    IF all = <<0>> THEN FZero
    ELSE FloatOfSig(neg, SubSeq(all, 1, Len(all) - tz), e + tz)
FloatOfDigits(neg, all, e) == FloatOfNorm(neg, all, e, TrailingZeroCount(all))

\* the float64 whose decimal digits are ds * 10^e
FloatOf(neg, ds, e) == FloatOfDigits(neg, NormDigits(ds), e)

\* strconv.ParseFloat on a number literal
ParseFloat(lit) ==
    FloatOf(lit.neg, lit.int \o lit.frac, (IF lit.hasExp THEN lit.exp ELSE 0) - Len(lit.frac))

\* position of the decimal point relative to the first digit of mant
DecPoint(f) == Len(f.mant) + f.e10

\* strconv's %f layout with the shortest digits
FmtF(f) ==
    LET dp == DecPoint(f)
    IN  IF f.e10 >= 0
        THEN NumLit(f.neg, f.mant \o Zeros(f.e10), <<>>, FALSE, 0)
        ELSE IF dp > 0
        THEN NumLit(f.neg, SubSeq(f.mant, 1, dp), SubSeq(f.mant, dp + 1, Len(f.mant)), FALSE, 0)
        ELSE NumLit(f.neg, <<0>>, Zeros(0 - dp) \o f.mant, FALSE, 0)

\* strconv's %e layout with the shortest digits: d.ddde(+|-)xx
FmtE(f) == NumLit(f.neg, <<Head(f.mant)>>, Tail(f.mant), TRUE, DecPoint(f) - 1)

\* encoding/json's floatEncoder: %f unless abs < 1e-6 or abs >= 1e21
jsonFloatEncoder(f) ==
    IF f = FZero THEN FmtF(f)
    ELSE IF DecPoint(f) <= -6 \/ DecPoint(f) >= 22 THEN FmtE(f)
    ELSE FmtF(f)

\* bsonrw's formatDouble for a finite value: %G with the shortest digits (%E when
\* the exponent is < -4 or >= 6), ".0" appended when neither "E" nor "." is there
formatDouble(f) ==
    LET x == DecPoint(f) - 1
    IN  IF f # FZero /\ (x < -4 \/ x >= 6) THEN FmtE(f)
        ELSE LET s == FmtF(f)
             IN  IF s.frac = <<>> THEN [s EXCEPT !.frac = <<0>>] ELSE s

-----------------------------------------------------------------------------
(* Characters                                                              *)

DigitChars == <<"0","1","2","3","4","5","6","7","8","9">>
HexLower == DigitChars \o <<"a","b","c","d","e","f">>
HexUpper == DigitChars \o <<"A","B","C","D","E","F">>

IsDigitChar(c) == \E i \in 1..10 : DigitChars[i] = c
DigitOf(c) == (CHOOSE i \in 1..10 : DigitChars[i] = c) - 1
IsHexChar(c) == \E i \in 1..16 : HexLower[i] = c \/ HexUpper[i] = c
NibbleOf(c) == (CHOOSE i \in 1..16 : HexLower[i] = c \/ HexUpper[i] = c) - 1

AllDigitChars(cs) == \A i \in 1..Len(cs) : IsDigitChar(cs[i])
CharsToDigits(cs) == [i \in 1..Len(cs) |-> DigitOf(cs[i])]
DigitsToChars(ds) == [i \in 1..Len(ds) |-> DigitChars[ds[i] + 1]]

\* strconv.ParseInt(s, 10, 64) on a string: optional sign, then digits
ParseIntStr(cs) ==
    LET signed == cs # <<>> /\ Head(cs) \in {"+", "-"}
        body   == IF signed THEN Tail(cs) ELSE cs
        i      == MkInt(signed /\ Head(cs) = "-", CharsToDigits(body))
    IN  IF body = <<>> \/ ~AllDigitChars(body) THEN [ok |-> FALSE]
        ELSE IF ~FitsInt64(i) THEN [ok |-> FALSE]
        ELSE [ok |-> TRUE, v |-> i]

IntToChars(i) == (IF i.neg THEN <<"-">> ELSE <<>>) \o DigitsToChars(i.mag)

\* strconv.ParseFloat(s, 64) on a string of the form [sign] digits [. digits];
\* strings with an exponent or a hexadecimal mantissa are not drawn below
ParseFloatStr(cs) ==
    LET signed == cs # <<>> /\ Head(cs) \in {"+", "-"}
        body   == IF signed THEN Tail(cs) ELSE cs
        dots   == {i \in 1..Len(body) : body[i] = "."}
        dot    == IF dots = {} THEN Len(body) + 1 ELSE CHOOSE i \in dots : TRUE
        ip     == SubSeq(body, 1, dot - 1)
        fp     == SubSeq(body, dot + 1, Len(body))
    IN  IF Cardinality(dots) > 1 \/ (ip = <<>> /\ fp = <<>>)
           \/ ~AllDigitChars(ip) \/ ~AllDigitChars(fp)
        THEN [ok |-> FALSE]
        ELSE [ok |-> TRUE,
              v  |-> FloatOf(signed /\ Head(cs) = "-",
                             CharsToDigits(ip) \o CharsToDigits(fp), 0 - Len(fp))]

-----------------------------------------------------------------------------
(* ObjectID and DateTime payloads                                          *)

Ok(v) == [ok |-> TRUE, v |-> v]
Err(e) == [ok |-> FALSE, err |-> e]

\* primitive.ObjectIDFromHex: exactly 24 hexadecimal characters, either case;
\* the 12 bytes are kept as 24 nibbles
ObjectIDFromHex(cs) ==
    IF Len(cs) # 24 \/ \E i \in 1..Len(cs) : ~IsHexChar(cs[i])
    THEN Err("InvalidObjectId")
    ELSE Ok([i \in 1..24 |-> NibbleOf(cs[i])])

\* the same digits in upper case, which ObjectIDFromHex reads as well
ObjectIDHexUpper(nibbles) == [i \in 1..24 |-> HexUpper[nibbles[i] + 1]]
\* ObjectID.Hex: lower-case hexadecimal
ObjectIDHex(nibbles) == [i \in 1..24 |-> HexLower[nibbles[i] + 1]]

\* days since 1970-01-01 of a date of the proleptic Gregorian calendar
DaysFromCivil(y, m, d) ==
    LET yy  == IF m <= 2 THEN y - 1 ELSE y
        era == yy \div 400
        yoe == yy - era * 400
        mp  == IF m > 2 THEN m - 3 ELSE m + 9
        doy == (153 * mp + 2) \div 5 + d - 1
        doe == yoe * 365 + yoe \div 4 - yoe \div 100 + doy
    IN  era * 146097 + doe - 719468

CivilFromDays(days) ==
    LET z   == days + 719468
        era == z \div 146097
        doe == z - era * 146097
        yoe == (doe - doe \div 1460 + doe \div 36524 - doe \div 146096) \div 365
        doy == doe - (365 * yoe + yoe \div 4 - yoe \div 100)
        mp  == (5 * doy + 2) \div 153
        m   == IF mp < 10 THEN mp + 3 ELSE mp - 9
    IN  [y |-> yoe + era * 400 + (IF m <= 2 THEN 1 ELSE 0),
         m |-> m,
         d |-> doy - (153 * mp + 2) \div 5 + 1]

IsLeap(y) == (y % 4 = 0 /\ y % 100 # 0) \/ y % 400 = 0
DaysInMonth(y, m) ==
    IF m = 2 THEN (IF IsLeap(y) THEN 29 ELSE 28)
    ELSE IF m \in {4, 6, 9, 11} THEN 30 ELSE 31

\* the int64 of days * 86400000 + ms, 0 <= ms < 86400000
MillisOf(days, ms) ==
    IF days >= 0
    THEN MkInt(FALSE, DigitsAdd(DigitsMulSmall(NatDigits(days), 86400000), NatDigits(ms)))
    ELSE MkInt(TRUE, DigitsSub(DigitsMulSmall(NatDigits(0 - days), 86400000), NatDigits(ms)))

\* the leading run of digit characters of cs
RECURSIVE DigitRun(_)
DigitRun(cs) ==
    IF cs # <<>> /\ IsDigitChar(Head(cs)) THEN <<Head(cs)>> \o DigitRun(Tail(cs)) ELSE <<>>

\* the zone of layouts "Z07:00" and "Z0700": minutes east of UTC
ParseZone(cs) ==
    IF cs = <<"Z">> THEN Ok(0)
    ELSE IF Len(cs) \in {5, 6} /\ cs[1] \in {"+", "-"}
            /\ (Len(cs) = 6 => cs[4] = ":")
            /\ AllDigitChars(SubSeq(cs, 2, 3))
            /\ AllDigitChars(SubSeq(cs, Len(cs) - 1, Len(cs)))
    THEN LET hh == DigitsNat(CharsToDigits(SubSeq(cs, 2, 3)))
             mm == DigitsNat(CharsToDigits(SubSeq(cs, Len(cs) - 1, Len(cs))))
         IN  IF hh > 23 \/ mm > 59 THEN Err("InvalidDate")
             ELSE Ok((IF cs[1] = "-" THEN -1 ELSE 1) * (hh * 60 + mm))
    ELSE Err("InvalidDate")

\* bsonrw's parseDatetimeString: time.Parse with "2006-01-02T15:04:05.999Z07:00",
\* then "2006-01-02T15:04:05.999Z0700"; the result in milliseconds since the epoch
parseDatetimeString(cs) ==
    IF \/ Len(cs) < 20
       \/ cs[5] # "-" \/ cs[8] # "-" \/ cs[11] # "T" \/ cs[14] # ":" \/ cs[17] # ":"
       \/ ~AllDigitChars(SubSeq(cs, 1, 4)) \/ ~AllDigitChars(SubSeq(cs, 6, 7))
       \/ ~AllDigitChars(SubSeq(cs, 9, 10)) \/ ~AllDigitChars(SubSeq(cs, 12, 13))
       \/ ~AllDigitChars(SubSeq(cs, 15, 16)) \/ ~AllDigitChars(SubSeq(cs, 18, 19))
    THEN Err("InvalidDate")
    ELSE
    LET y    == DigitsNat(CharsToDigits(SubSeq(cs, 1, 4)))
        mo   == DigitsNat(CharsToDigits(SubSeq(cs, 6, 7)))
        d    == DigitsNat(CharsToDigits(SubSeq(cs, 9, 10)))
        h    == DigitsNat(CharsToDigits(SubSeq(cs, 12, 13)))
        mi   == DigitsNat(CharsToDigits(SubSeq(cs, 15, 16)))
        sec  == DigitsNat(CharsToDigits(SubSeq(cs, 18, 19)))
        rest == SubSeq(cs, 20, Len(cs))
        hasF == Len(rest) >= 2 /\ rest[1] \in {".", ","} /\ IsDigitChar(rest[2])
        fr   == IF hasF THEN DigitRun(Tail(rest)) ELSE <<>>
        zone == ParseZone(SubSeq(rest, (IF hasF THEN Len(fr) + 1 ELSE 0) + 1, Len(rest)))
        \* the fraction is cut to milliseconds
        ms   == DigitsNat(SubSeq(CharsToDigits(fr) \o Zeros(3), 1, 3))
    IN  IF mo < 1 \/ mo > 12 \/ d < 1 \/ d > DaysInMonth(y, mo)
           \/ h > 23 \/ mi > 59 \/ sec > 59 \/ ~zone.ok
        THEN Err("InvalidDate")
        ELSE LET local == ((h * 60 + mi) * 60 + sec) * 1000 + ms - zone.v * 60000
             IN  Ok(MillisOf(DaysFromCivil(y, mo, d) + local \div 86400000,
                             local % 86400000))

\* time.Time.Format("2006-01-02T15:04:05.999Z07:00") in UTC of a day and a
\* millisecond of that day
FormatRFC3339Milli(days, ms) ==
    LET c    == CivilFromDays(days)
        P(n, w) == DigitsToChars(PadTo(NatDigits(n), w))
        sec  == ms \div 1000
        frac == PadTo(NatDigits(ms % 1000), 3)
        fcut == SubSeq(frac, 1, 3 - (IF frac[3] # 0 THEN 0 ELSE IF frac[2] # 0 THEN 1 ELSE 2))
    IN  P(c.y, 4) \o <<"-">> \o P(c.m, 2) \o <<"-">> \o P(c.d, 2) \o <<"T">>
        \o P(sec \div 3600, 2) \o <<":">> \o P((sec \div 60) % 60, 2) \o <<":">>
        \o P(sec % 60, 2)
        \o (IF ms % 1000 = 0 THEN <<>> ELSE <<".">> \o DigitsToChars(fcut))
        \o <<"Z">>

-----------------------------------------------------------------------------
(* JSON text, Go values and BSON values                                    *)

\* JSON text as a tree of tokens; an object keeps its members in text order
JNull == [t |-> "null"]
JBool(b) == [t |-> "bool", b |-> b]
JStr(cs) == [t |-> "str", s |-> cs]
JArr(xs) == [t |-> "arr", xs |-> xs]
JObj(ms) == [t |-> "obj", ms |-> ms]
\* characters written between two quotes as they are, without escaping
JRaw(cs) == [t |-> "raw", s |-> cs]

\* Go values of type interface{} as encoding/json produces them; a map has no
\* order, so it is kept in the one canonical order of its keys
GNil == [t |-> "nil"]
GBool(b) == [t |-> "bool", b |-> b]
GFloat64(f) == [t |-> "float64", f |-> f]
GString(cs) == [t |-> "string", s |-> cs]
GSlice(xs) == [t |-> "slice", xs |-> xs]
GMap(ms) == [t |-> "map", ms |-> ms]

\* BSON values as the driver's empty-interface decoder produces them
BNull == [t |-> "null"]
BBoolean(b) == [t |-> "boolean", b |-> b]
BInt32(i) == [t |-> "int32", i |-> i]
BInt64(i) == [t |-> "int64", i |-> i]
BDouble(f) == [t |-> "double", f |-> f]
BString(cs) == [t |-> "string", s |-> cs]
BObjectID(n) == [t |-> "objectID", id |-> n]
BDateTime(ms) == [t |-> "datetime", ms |-> ms]
BRegex(pattern, options) == [t |-> "regex", pattern |-> pattern, options |-> options]
BD(es) == [t |-> "document", es |-> es]
BA(xs) == [t |-> "array", xs |-> xs]

\* the byte order of the object keys used below
KeyOrder ==
    <<"#x", "$date", "$match", "$numberDouble", "$numberLong", "$oid", "$project",
      "$regularExpression", "$set", "_id", "a", "b", "document", "documents",
      "extra", "insertedId", "insertedIds", "matchedCount", "modifiedCount", "n",
      "options", "pattern", "result", "upsertedCount", "upsertedId">>
KeyRank(k) == CHOOSE i \in 1..Len(KeyOrder) : KeyOrder[i] = k

\* a member put into members sorted by key; a repeated key keeps the later value
RECURSIVE InsertMember(_, _)
InsertMember(sorted, e) ==
    IF sorted = <<>> THEN <<e>>
    ELSE IF Head(sorted)[1] = e[1] THEN <<e>> \o Tail(sorted)
    ELSE IF KeyRank(e[1]) < KeyRank(Head(sorted)[1]) THEN <<e>> \o sorted
    ELSE <<Head(sorted)>> \o InsertMember(Tail(sorted), e)

RECURSIVE SortMembers(_)
SortMembers(ms) ==
    IF ms = <<>> THEN <<>>
    ELSE InsertMember(SortMembers(SubSeq(ms, 1, Len(ms) - 1)), ms[Len(ms)])

\* json.Unmarshal's check of the text: a quote or a backslash written as it is
\* inside a string ends the string early or starts an escape, and the text is
\* refused
RECURSIVE jsonValid(_)
jsonValid(j) ==
    CASE j.t = "raw" -> \A i \in 1..Len(j.s) : j.s[i] \notin {"\"", "\\"}
      [] j.t = "arr" -> \A i \in 1..Len(j.xs) : jsonValid(j.xs[i])
      [] j.t = "obj" -> \A i \in 1..Len(j.ms) : jsonValid(j.ms[i][2])
      [] OTHER       -> TRUE

\* json.Unmarshal into interface{}: every number a float64, every object a map
RECURSIVE jsonUnmarshal(_)
jsonUnmarshal(j) ==
    CASE j.t = "null" -> GNil
      [] j.t = "bool" -> GBool(j.b)
      [] j.t = "num"  -> GFloat64(ParseFloat(j))
      [] j.t = "str"  -> GString(j.s)
      [] j.t = "raw"  -> GString(j.s)
      [] j.t = "arr"  -> GSlice([i \in 1..Len(j.xs) |-> jsonUnmarshal(j.xs[i])])
      [] j.t = "obj"  ->
           GMap(SortMembers([i \in 1..Len(j.ms) |->
                               <<j.ms[i][1], jsonUnmarshal(j.ms[i][2])>>]))

\* json.Marshal of such a value: map keys sorted, floats by jsonFloatEncoder
RECURSIVE jsonMarshal(_)
jsonMarshal(g) ==
    CASE g.t = "nil"     -> JNull
      [] g.t = "bool"    -> JBool(g.b)
      [] g.t = "float64" -> jsonFloatEncoder(g.f)
      [] g.t = "string"  -> JStr(g.s)
      [] g.t = "slice"   -> JArr([i \in 1..Len(g.xs) |-> jsonMarshal(g.xs[i])])
      [] g.t = "map"     ->
           JObj([i \in 1..Len(g.ms) |-> <<g.ms[i][1], jsonMarshal(g.ms[i][2])>>])

-----------------------------------------------------------------------------
(* bson.UnmarshalExtJSON(data, false, &v) with v an interface{}            *)

InfinityChars == <<"I","n","f","i","n","i","t","y">>
NaNChars == <<"N","a","N">>

\* bsonrw's wrapperKeyBSONType for the keys used below: the type the first key of
\* a nested object announces
wrapperKeyBSONType(k) ==
    CASE k = "$oid"          -> "objectID"
      [] k = "$date"         -> "datetime"
      [] k = "$numberLong"   -> "int64"
      [] k = "$numberDouble" -> "double"
      [] OTHER               -> "document"

\* the JSON scanner's number token: a double when written with a fraction or an
\* exponent, else strconv.ParseInt(_, 10, 64), an int32 when it fits one
scanNumber(lit) ==
    IF lit.frac # <<>> \/ lit.hasExp
    THEN Ok(BDouble(ParseFloat(lit)))
    ELSE LET i == MkInt(lit.neg, lit.int)
         IN  IF ~FitsInt64(i) THEN Err("value out of range")
             ELSE IF FitsInt32(i) THEN Ok(BInt32(i))
             ELSE Ok(BInt64(i))

parseObjectID(p) ==
    LET r == ObjectIDFromHex(p.s) IN IF r.ok THEN Ok(BObjectID(r.v)) ELSE r

parseInt64(p) ==
    LET r == ParseIntStr(p.s) IN IF r.ok THEN Ok(BInt64(r.v)) ELSE Err("InvalidNumber")

doubleOf(r) == IF r.ok THEN Ok(BDouble(r.v)) ELSE Err("InvalidNumber")
parseDouble(p) ==
    IF p.s = InfinityChars THEN Ok(BDouble(FInf(FALSE)))
    ELSE IF p.s = <<"-">> \o InfinityChars THEN Ok(BDouble(FInf(TRUE)))
    ELSE IF p.s = NaNChars THEN Ok(BDouble(FNaN))
    ELSE doubleOf(ParseFloatStr(p.s))

\* bsonrw's parseDatetime: an integer is epoch milliseconds, a string is parsed,
\* an object must be {"$numberLong": "<integer>"}
datetimeOfNumber(n) ==
    IF ~n.ok THEN n
    ELSE IF n.v.t \in {"int32", "int64"} THEN Ok(BDateTime(n.v.i))
    ELSE Err("InvalidDate")
datetimeOfString(r) == IF r.ok THEN Ok(BDateTime(r.v)) ELSE r
parseDatetime(p) ==
    CASE p.t = "num" -> datetimeOfNumber(scanNumber(p))
      [] p.t = "str" -> datetimeOfString(parseDatetimeString(p.s))
      [] p.t = "obj" ->
           IF Len(p.ms) = 1 /\ p.ms[1][1] = "$numberLong" /\ p.ms[1][2].t = "str"
           THEN LET r == ParseIntStr(p.ms[1][2].s)
                IN  IF r.ok THEN Ok(BDateTime(r.v)) ELSE Err("InvalidDate")
           ELSE Err("InvalidDate")
      [] OTHER -> Err("InvalidDate")

\* the parser's readValue for an object whose first key announces a wrapper:
\* the key's value, then the end of the object, nothing else
readWrapper(typ, ms) ==
    LET p == ms[1][2]
    IN  IF typ = "datetime"
        THEN IF p.t = "arr" THEN Err("expected string or {")
             ELSE IF Len(ms) # 1 THEN Err("expected value and then }")
             ELSE parseDatetime(p)
        ELSE IF p.t # "str" THEN Err("expected value")
             ELSE IF Len(ms) # 1 THEN Err("expected } after value")
             ELSE IF typ = "objectID" THEN parseObjectID(p)
             ELSE IF typ = "int64" THEN parseInt64(p)
             ELSE parseDouble(p)

\* all results of a sequence of reads, or the first error
Collect(rs) ==
    IF \E i \in 1..Len(rs) : ~rs[i].ok
    THEN rs[CHOOSE i \in 1..Len(rs) : ~rs[i].ok /\ \A j \in 1..(i - 1) : rs[j].ok]
    ELSE Ok([i \in 1..Len(rs) |-> rs[i].v])

\* the array of the elements read, the document of the members read under
\* their keys, or the first error
arrayOf(r) == IF r.ok THEN Ok(BA(r.v)) ELSE r
documentOf(ms, r) ==
    IF r.ok THEN Ok(BD([i \in 1..Len(ms) |-> <<ms[i][1], r.v[i]>>])) ELSE r

\* a value below the top level: an object is a wrapper when its first key says so
RECURSIVE readValue(_)
readValue(j) ==
    CASE j.t = "null" -> Ok(BNull)
      [] j.t = "bool" -> Ok(BBoolean(j.b))
      [] j.t = "str"  -> Ok(BString(j.s))
      [] j.t = "num"  -> scanNumber(j)
      [] j.t = "arr"  -> arrayOf(Collect([i \in 1..Len(j.xs) |-> readValue(j.xs[i])]))
      [] j.t = "obj"  ->
           IF j.ms # <<>> /\ wrapperKeyBSONType(j.ms[1][1]) # "document"
           THEN readWrapper(wrapperKeyBSONType(j.ms[1][1]), j.ms)
           ELSE documentOf(j.ms, Collect([i \in 1..Len(j.ms) |-> readValue(j.ms[i][2])]))

\* the top level: an object is always a document (peekType returns
\* EmbeddedDocument from the start state whatever the first key), an array is
\* read element by element
UnmarshalExtJSON(j) ==
    CASE j.t = "obj" ->
           documentOf(j.ms, Collect([i \in 1..Len(j.ms) |-> readValue(j.ms[i][2])]))
      [] OTHER -> readValue(j)

-----------------------------------------------------------------------------
(* bson.MarshalExtJSON(v, false, false): relaxed extended JSON             *)

\* the canonical form of a date whatever the year
WriteDateTimeCanonical(ms) ==
    JObj(<< <<"$date", JObj(<< <<"$numberLong", JStr(IntToChars(ms))>> >>)>> >>)

\* extJSONValueWriter.WriteDateTime, relaxed: an RFC 3339 string for years 1970
\* to 9999, else {"$numberLong": "<ms>"}
WriteDateTime(ms) ==
    LET qr   == DigitsDivMod(ms.mag, 86400000)
        long == JObj(<< <<"$date", JObj(<< <<"$numberLong", JStr(IntToChars(ms))>> >>)>> >>)
    IN  IF ms.neg \/ Len(qr[1]) > 7 THEN long
        ELSE IF DigitsNat(qr[1]) >= DaysFromCivil(10000, 1, 1) THEN long
        ELSE JObj(<< <<"$date", JStr(FormatRFC3339Milli(DigitsNat(qr[1]), qr[2]))>> >>)

\* extJSONValueWriter.WriteDouble, relaxed: a bare number unless not finite
WriteDouble(f) ==
    IF f.kind = "fin" THEN formatDouble(f)
    ELSE JObj(<< <<"$numberDouble",
                   JStr(IF f.kind = "nan" THEN NaNChars
                        ELSE IF f.neg THEN <<"-">> \o InfinityChars
                        ELSE InfinityChars)>> >>)

\* extJSONValueWriter.WriteRegex: the pattern is written escaped, the options
\* between two quotes as they are
WriteRegex(pattern, options) ==
    JObj(<< <<"$regularExpression",
              JObj(<< <<"pattern", JStr(pattern)>>, <<"options", JRaw(options)>> >>)>> >>)

RECURSIVE WriteValue(_)
WriteValue(v) ==
    CASE v.t = "null"     -> JNull
      [] v.t = "boolean"  -> JBool(v.b)
      [] v.t = "int32"    -> IntLit(v.i)
      [] v.t = "int64"    -> IntLit(v.i)
      [] v.t = "double"   -> WriteDouble(v.f)
      [] v.t = "string"   -> JStr(v.s)
      [] v.t = "objectID" -> JObj(<< <<"$oid", JStr(ObjectIDHex(v.id))>> >>)
      [] v.t = "datetime" -> WriteDateTime(v.ms)
      [] v.t = "regex"    -> WriteRegex(v.pattern, v.options)
      [] v.t = "array"    -> JArr([i \in 1..Len(v.xs) |-> WriteValue(v.xs[i])])
      [] v.t = "document" ->
           JObj([i \in 1..Len(v.es) |-> <<v.es[i][1], WriteValue(v.es[i][2])>>])

\* only a document can be written at the top level (WriteArray and the scalar
\* writers fail with an invalid state transition there)
MarshalExtJSON(v) ==
    IF v.t = "document" THEN Ok(WriteValue(v)) ELSE Err("invalid state transition")

-----------------------------------------------------------------------------
(* handlers.go: the codec                                                  *)

\* deserializeInput: json.Marshal, then bson.UnmarshalExtJSON(_, false, _)
deserializeInput(input) == UnmarshalExtJSON(jsonMarshal(input))

\* json.Unmarshal of the bytes MarshalExtJSON returned, or its error
Unmarshalled(ejson) ==
    IF ~ejson.ok THEN ejson
    ELSE IF jsonValid(ejson.v) THEN Ok(jsonUnmarshal(ejson.v))
    ELSE Err("invalid character")

\* serializeOutput: bson.MarshalExtJSON(_, false, false), then json.Unmarshal
serializeOutput(output) == Unmarshalled(MarshalExtJSON(output))

-----------------------------------------------------------------------------
(* The request values drawn                                                *)

OidLower == JStr(<<"5","0","7","f","1","f","7","7","b","c","f","8","6","c","d","7","9","9","4","3","9","0","1","1">>)
OidUpper == JStr(<<"5","0","7","F","1","F","7","7","B","C","F","8","6","C","D","7","9","9","4","3","9","0","1","1">>)
OidNotHex == JStr(<<"n","o","t","-","h","e","x">>)
DateZ == JStr(<<"2","0","2","4","-","0","1","-","0","1","T","0","0",":","0","0",":","0","0","Z">>)
DateOffset == JStr(<<"2","0","2","4","-","0","1","-","0","1","T","0","1",":","0","0",":","0","0","+","0","1",":","0","0">>)
DateMilli == JStr(<<"2","0","2","4","-","0","1","-","0","1","T","0","0",":","0","0",":","0","0",".","5","Z">>)
DateMilliZeros == JStr(<<"2","0","2","4","-","0","1","-","0","1","T","0","0",":","0","0",":","0","0",".","0","0","0","Z">>)
DateOld == JStr(<<"1","9","6","9","-","1","2","-","3","1","T","2","3",":","5","9",":","5","9","Z">>)
DateBad == JStr(<<"y","e","s","t","e","r","d","a","y">>)
StrV == JStr(<<"v">>)

N(ds) == NumLit(FALSE, ds, <<>>, FALSE, 0)
Num1 == N(<<1>>)
Num42 == N(<<4,2>>)
Num42p0 == NumLit(FALSE, <<4,2>>, <<0>>, FALSE, 0)
Num1e10 == NumLit(FALSE, <<1>>, <<>>, TRUE, 10)
Num1p5 == NumLit(FALSE, <<1>>, <<5>>, FALSE, 0)
NumNeg7 == NumLit(TRUE, <<7>>, <<>>, FALSE, 0)
Num3e9 == N(<<3>> \o Zeros(9))
NumMaxInt32 == N(MaxInt32Mag)
NumPastInt32 == N(MinInt32Mag)
Num1e19 == N(<<1>> \o Zeros(19))
Num1e21 == N(<<1>> \o Zeros(21))
NumMillis == N(<<1,7,0,4,0,6,7,2,0,0,0,0,0>>)

Obj1(k, v) == JObj(<< <<k, v>> >>)
Obj2(k1, v1, k2, v2) == JObj(<< <<k1, v1>>, <<k2, v2>> >>)

\* bare scalars
Scalars ==
    {JNull, JBool(TRUE), StrV, Num42, Num42p0, Num1e10, Num1p5, NumNeg7, Num3e9,
     NumMaxInt32, NumPastInt32, Num1e19, Num1e21}

\* single-key objects under a reserved key, payloads well formed
GoodWrappers ==
    {Obj1("$oid", OidLower), Obj1("$oid", OidUpper),
     Obj1("$date", DateZ), Obj1("$date", DateOffset), Obj1("$date", DateMilli),
     Obj1("$date", DateMilliZeros), Obj1("$date", DateOld), Obj1("$date", NumMillis),
     Obj1("$date", Obj1("$numberLong", JStr(<<"-","1","0","0","0">>))),
     Obj1("$numberLong", JStr(<<"5">>)), Obj1("$numberLong", JStr(<<"-","5">>)),
     Obj1("$numberDouble", JStr(<<"1",".","5">>)),
     Obj1("$numberDouble", JStr(NaNChars)),
     Obj1("$numberDouble", JStr(InfinityChars))}

\* single-key objects under a reserved key whose payload is not the scalar
BadWrappers ==
    {Obj1("$oid", OidNotHex), Obj1("$oid", Num42), Obj1("$oid", JStr(<<"5","0","7","f">>)),
     Obj1("$date", DateBad), Obj1("$date", JBool(TRUE)), Obj1("$date", Num1p5),
     Obj1("$numberLong", JStr(<<"1",".","5">>)), Obj1("$numberLong", Num42),
     Obj1("$numberDouble", JStr(<<"a","b","c">>)), Obj1("$numberDouble", Num1p5)}

\* objects of two keys, one of them reserved, in either written order
MultiKey ==
    {Obj2("$oid", OidLower, "extra", Num1), Obj2("extra", Num1, "$oid", OidLower),
     Obj2("#x", Num1, "$oid", OidLower), Obj2("$oid", OidNotHex, "extra", Num1),
     Obj2("$date", DateZ, "extra", Num1), Obj2("$numberLong", JStr(<<"5">>), "a", Num1)}

\* plain objects, the keys written in either order
Plain ==
    {JObj(<<>>), Obj2("b", Num1, "a", Num1), Obj2("a", Num1, "b", Num1),
     Obj1("b", Obj2("b", Num42, "a", StrV))}

Nested == Scalars \cup GoodWrappers \cup BadWrappers \cup MultiKey \cup Plain

\* the objects a request field (document, filter, update) may hold
FieldDocs ==
    {Obj1("a", v) : v \in Nested}
    \cup {Obj1("_id", w) : w \in {Obj1("$oid", OidLower), Obj1("$oid", OidNotHex)}}
    \cup {Obj1("a", JArr(<<w, Num42>>)) : w \in {Obj1("$oid", OidLower), Obj1("$date", DateBad)}}
    \cup {Obj2("b", Obj1("$date", DateZ), "a", Obj1("$numberLong", JStr(<<"5">>)))}
    \cup GoodWrappers \cup BadWrappers \cup MultiKey \cup Plain

-----------------------------------------------------------------------------
(* State                                                                   *)

VARIABLES
    phase,      \* main: "boot", "connected", "serving" or "exited"
    client,     \* db.client: "nil" or "connected"
    apiKeyEnv,  \* os.Getenv("API_KEY")
    req,        \* the request in flight, or NoReq
    pc,         \* where the request is: "idle", "apikey", "metrics", "route",
                \* "storage", "after" or "sent"
    doc,        \* the handler's Document after BodyParser, or NoDoc
    parsed,     \* whether BodyParser ran for the request
    decodes,    \* the fields deserializeInput was applied to, in order
    calls,      \* the storage operations issued for the request, in order
    answer,     \* what the storage layer answered, or NoAnswer
    resp,       \* the response written so far, or NoResp
    invoked,    \* the route handler invoked for the request, or "none"
    recorded,   \* the RecordHTTPRequest calls made for the request
    logged,     \* whether the metrics middleware logged the request
    parked,     \* a second request in flight: all of the above that is its own,
                \* while its goroutine is not the one taking steps
    cin,        \* codec run: the JSON text of a field as the client wrote it
    cstage,     \* codec run: "input", "parsed", "decoded" or "encoded"
    cval        \* codec run: the value the last step produced

svars == <<phase, client, apiKeyEnv, req, pc, doc, parsed, decodes, calls, answer,
           resp, invoked, recorded, logged, parked>>
cvars == <<cin, cstage, cval>>
vars == <<svars, cvars>>

NoReq == [none |-> TRUE]
NoDoc == [none |-> TRUE]
NoResp == [none |-> TRUE]
NoAnswer == [none |-> TRUE]

\* what a goroutine has of its own before a request reaches it
NoLocals ==
    [req |-> NoReq, pc |-> "idle", doc |-> NoDoc, parsed |-> FALSE, decodes |-> <<>>,
     calls |-> <<>>, answer |-> NoAnswer, resp |-> NoResp, invoked |-> "none",
     recorded |-> <<>>, logged |-> FALSE]

-----------------------------------------------------------------------------
(* The codec applied to one field: parse, decode, encode                   *)

ServerIdle ==
    /\ phase = "boot" /\ client = "nil" /\ apiKeyEnv = <<>>
    /\ req = NoReq /\ pc = "idle" /\ doc = NoDoc /\ parsed = FALSE
    /\ decodes = <<>> /\ calls = <<>> /\ answer = NoAnswer /\ resp = NoResp
    /\ invoked = "none"
    /\ recorded = <<>> /\ logged = FALSE /\ parked = NoLocals

CodecInit ==
    /\ ServerIdle
    /\ cin \in FieldDocs
    /\ cstage = "input"
    /\ cval = NoDoc

\* BodyParser's json.Unmarshal of the field into a map[string]interface{}
CodecParse ==
    /\ cstage = "input"
    /\ cstage' = "parsed"
    /\ cval' = jsonUnmarshal(cin)
    /\ UNCHANGED <<cin, svars>>

CodecDecode ==
    /\ cstage = "parsed"
    /\ cstage' = "decoded"
    /\ cval' = deserializeInput(cval)
    /\ UNCHANGED <<cin, svars>>

CodecEncode ==
    /\ cstage = "decoded"
    /\ cval.ok
    /\ cstage' = "encoded"
    /\ cval' = serializeOutput(cval.v)
    /\ UNCHANGED <<cin, svars>>

CodecNext == CodecParse \/ CodecDecode \/ CodecEncode

CodecSpec == CodecInit /\ [][CodecNext]_vars

-----------------------------------------------------------------------------
(* C1: the round trip of the codec                                         *)

ReservedKeys == {"$oid", "$date", "$numberDouble", "$numberLong"}
IsWrapper(j) == j.t = "obj" /\ Len(j.ms) = 1 /\ j.ms[1][1] \in ReservedKeys

\* the written forms relaxed extended JSON itself uses, stated on the text alone
LowerHexOnly(cs) == \A i \in 1..Len(cs) : \A k \in 11..16 : cs[i] # HexUpper[k]
RelaxedDateString(cs) ==
    /\ Len(cs) >= 20
    /\ cs[Len(cs)] = "Z"
    /\ DigitsNat(CharsToDigits(SubSeq(cs, 1, 4))) >= 1970
    /\ \/ Len(cs) = 20
       \/ cs[20] = "." /\ Len(cs) \in 22..24 /\ cs[Len(cs) - 1] # "0"
\* {"$numberLong": s} under $date: only outside the years 1970 to 9999
RelaxedDateLong(cs) ==
    \/ Len(cs) >= 2 /\ cs[1] = "-" /\ cs[2] # "0"
    \/ /\ cs[1] \notin {"-", "+", "0"}
       /\ DigitsLeq(<<2,5,3,4,0,2,3,0,0,8,0,0,0,0,0>>, CharsToDigits(cs))
RelaxedWrapper(j) ==
    LET k == j.ms[1][1]
        p == j.ms[1][2]
    IN  CASE k = "$oid"          -> LowerHexOnly(p.s)
          [] k = "$date"         ->
               (IF p.t = "str" THEN RelaxedDateString(p.s)
                ELSE IF p.t = "obj" THEN RelaxedDateLong(p.ms[1][2].s)
                ELSE FALSE)
          [] k = "$numberLong"   -> FALSE
          [] k = "$numberDouble" ->
               p.s \in {NaNChars, InfinityChars, <<"-">> \o InfinityChars}

RECURSIVE RelaxedBelow(_)
RelaxedBelow(j) ==
    CASE j.t = "arr" -> \A i \in 1..Len(j.xs) : RelaxedBelow(j.xs[i])
      [] j.t = "obj" ->
           IF IsWrapper(j) THEN RelaxedWrapper(j)
           ELSE \A i \in 1..Len(j.ms) : RelaxedBelow(j.ms[i][2])
      [] OTHER -> TRUE

\* a field's document is in relaxed form when every wrapper below its top level is
InRelaxedForm(j) == \A i \in 1..Len(j.ms) : RelaxedBelow(j.ms[i][2])

RECURSIVE HasKeyBelow(_, _)
HasKeyBelow(j, k) ==
    CASE j.t = "arr" -> \E i \in 1..Len(j.xs) : HasKeyBelow(j.xs[i], k)
      [] j.t = "obj" ->
           \E i \in 1..Len(j.ms) : j.ms[i][1] = k \/ HasKeyBelow(j.ms[i][2], k)
      [] OTHER -> FALSE

-----------------------------------------------------------------------------
(* C4, C5: reserved keys among other keys, reserved keys with bad payloads  *)

MultiKeyReserved(j) ==
    j.t = "obj" /\ Len(j.ms) >= 2 /\ \E i \in 1..Len(j.ms) : j.ms[i][1] \in ReservedKeys

FieldOf(d, k) == d.es[CHOOSE i \in 1..Len(d.es) : d.es[i][1] = k][2]

\* C4 as claimed: an object of two or more keys, one of them reserved, is
\* decoded without error as a document holding all its keys
C4_MultiKeyIsLiteral ==
    cstage = "decoded" =>
        \A i \in 1..Len(cin.ms) :
            MultiKeyReserved(cin.ms[i][2]) =>
                /\ cval.ok
                /\ LET b == FieldOf(cval.v, cin.ms[i][1])
                   IN  /\ b.t = "document"
                       /\ {b.es[n][1] : n \in 1..Len(b.es)}
                            = {cin.ms[i][2].ms[n][1] : n \in 1..Len(cin.ms[i][2].ms)}

\* a single-key object under a reserved key whose payload is not the scalar
BadPayload(j) ==
    IsWrapper(j) /\ ~readWrapper(wrapperKeyBSONType(j.ms[1][1]), j.ms).ok

RECURSIVE HasBadPayload(_)
HasBadPayload(j) ==
    CASE j.t = "arr" -> \E i \in 1..Len(j.xs) : HasBadPayload(j.xs[i])
      [] j.t = "obj" ->
           BadPayload(j) \/ \E i \in 1..Len(j.ms) : HasBadPayload(j.ms[i][2])
      [] OTHER -> FALSE

\* C5 as claimed: a field holding a single-key reserved object with a bad
\* payload, at any depth, is never decoded: deserializeInput returns an error
C5_BadPayloadFails ==
    cstage = "decoded" /\ HasBadPayload(cin) => ~cval.ok

-----------------------------------------------------------------------------
(* handlers.go: the request body and the Document it is parsed into        *)

StatusOK == 200
StatusInternalServerError == 500
StatusBadRequest == 400
StatusForbidden == 403

Absent == [t |-> "absent"]
Garbage == [t |-> "garbage"]

\* the value of a key of the body, the last one written, or Absent
Lookup(j, k) ==
    IF \E i \in 1..Len(j.ms) : j.ms[i][1] = k
    THEN j.ms[CHOOSE i \in 1..Len(j.ms) :
                /\ j.ms[i][1] = k
                /\ \A n \in (i + 1)..Len(j.ms) : j.ms[n][1] # k][2]
    ELSE Absent

\* encoding/json into each field type of Document: null and a missing key leave
\* the zero value, a value of another JSON type is an UnmarshalTypeError
decodeString(v) ==
    CASE v.t \in {"absent", "null"} -> Ok(<<>>)
      [] v.t = "str" -> Ok(v.s)
      [] OTHER -> Err("UnmarshalTypeError")

decodeBool(v) ==
    CASE v.t \in {"absent", "null"} -> Ok(FALSE)
      [] v.t = "bool" -> Ok(v.b)
      [] OTHER -> Err("UnmarshalTypeError")

decodeInt64(v) ==
    CASE v.t \in {"absent", "null"} -> Ok(MkInt(FALSE, <<0>>))
      [] v.t = "num" ->
           IF v.frac = <<>> /\ ~v.hasExp /\ FitsInt64(MkInt(v.neg, v.int))
           THEN Ok(MkInt(v.neg, v.int))
           ELSE Err("UnmarshalTypeError")
      [] OTHER -> Err("UnmarshalTypeError")

decodeMap(v) ==
    CASE v.t \in {"absent", "null"} -> Ok(GNil)
      [] v.t = "obj" -> Ok(jsonUnmarshal(v))
      [] OTHER -> Err("UnmarshalTypeError")

decodeMaps(v) ==
    CASE v.t \in {"absent", "null"} -> Ok(GNil)
      [] v.t = "arr" ->
           IF \A i \in 1..Len(v.xs) : v.xs[i].t \in {"obj", "null"}
           THEN Ok(GSlice([i \in 1..Len(v.xs) |-> jsonUnmarshal(v.xs[i])]))
           ELSE Err("UnmarshalTypeError")
      [] OTHER -> Err("UnmarshalTypeError")

\* var doc Document: every field at its zero value
ZeroDocument ==
    [Database |-> <<>>, Collection |-> <<>>, Document |-> GNil,
     Documents |-> GNil, Filter |-> GNil, Update |-> GNil, Upsert |-> FALSE,
     Projection |-> GNil, Sort |-> GNil, Limit |-> MkInt(FALSE, <<0>>),
     Skip |-> MkInt(FALSE, <<0>>), Pipeline |-> GNil]

\* a parser whose error is dropped: the Document stays as declared
BodyParserIgnored(body) == Ok(ZeroDocument)

\* c.BodyParser(&doc): the body as JSON into a Document; the binding tags of
\* Database and Collection are not read by it
BodyParser(body) ==
    IF body.t = "null" THEN Ok(ZeroDocument)
    ELSE IF body.t # "obj" THEN Err("SyntaxError")
    ELSE LET database   == decodeString(Lookup(body, "database"))
             collection == decodeString(Lookup(body, "collection"))
             document   == decodeMap(Lookup(body, "document"))
             documents  == decodeMaps(Lookup(body, "documents"))
             filter     == decodeMap(Lookup(body, "filter"))
             update     == decodeMap(Lookup(body, "update"))
             upsert     == decodeBool(Lookup(body, "upsert"))
             projection == decodeMap(Lookup(body, "projection"))
             sort       == decodeMap(Lookup(body, "sort"))
             limit      == decodeInt64(Lookup(body, "limit"))
             skip       == decodeInt64(Lookup(body, "skip"))
             pipeline   == decodeMaps(Lookup(body, "pipeline"))
         IN  IF /\ database.ok /\ collection.ok /\ document.ok /\ documents.ok
                /\ filter.ok /\ update.ok /\ upsert.ok /\ projection.ok /\ sort.ok
                /\ limit.ok /\ skip.ok /\ pipeline.ok
             THEN Ok([Database |-> database.v, Collection |-> collection.v,
                      Document |-> document.v, Documents |-> documents.v,
                      Filter |-> filter.v, Update |-> update.v, Upsert |-> upsert.v,
                      Projection |-> projection.v, Sort |-> sort.v,
                      Limit |-> limit.v, Skip |-> skip.v, Pipeline |-> pipeline.v])
             ELSE Err("UnmarshalTypeError")

-----------------------------------------------------------------------------
(* The requests a client sends                                             *)

\* the longest documents array and the longest pipeline of a request
MaxDocuments == 2

OperationPaths ==
    {"/api/insertOne", "/api/insertMany", "/api/findOne", "/api/find",
     "/api/updateOne", "/api/updateMany", "/api/deleteOne", "/api/deleteMany",
     "/api/aggregate"}
OpenPaths == {"/api/health", "/metrics"}

KeySet == <<"k","e","y">>
KeyOther == <<"b","a","d">>
\* the apiKey header of a request; c.Get gives "" for a header not sent
Headers == {<<>>, KeySet, KeyOther}

DbName == JStr(<<"d","b">>)
CollName == JStr(<<"c">>)
\* a name as the body may give it: not at all, empty, or in full
Names(name) == {Absent, JStr(<<>>), name}

Present(m) == m[2].t # "absent"
\* a JSON object of the members that are there
Body(ms) == JObj(SelectSeq(ms, Present))
Envelope(database, collection, fields) ==
    Body(<< <<"database", database>>, <<"collection", collection>> >> \o fields)

\* the documents and filters of requests
ReqDocs ==
    {Obj1("a", Num42), Obj1("a", Num42p0), Obj1("a", Num1e10), Obj1("a", Num1e19),
     Obj1("a", Num3e9), Obj1("a", Num1p5),
     Obj1("a", Obj1("$oid", OidLower)), Obj1("a", Obj1("$oid", OidNotHex)),
     Obj1("$oid", OidNotHex), Obj1("a", Obj1("$date", DateZ)),
     Obj1("a", Obj2("$oid", OidLower, "extra", Num1)),
     Obj1("_id", Obj1("$oid", OidLower)), Obj2("b", Num1, "a", Num1), JObj(<<>>)}
GoodDoc == Obj1("a", Num42)
BadDoc == Obj1("a", Obj1("$oid", OidNotHex))
Updates ==
    {Obj1("$set", Obj1("a", Num42p0)), Obj1("$set", Obj1("a", Obj1("$date", DateBad))),
     Obj1("a", Num1)}
Stages ==
    {Obj1("$project", Obj2("b", Num1, "a", Num1)), Obj1("$match", Obj1("a", Num42p0)),
     Obj1("$match", BadDoc)}
ManyDocs == {GoodDoc, BadDoc, Obj1("_id", Obj1("$oid", OidLower))}

\* the sequences over S of length at most n
SeqsUpTo(S, n) == UNION {[1..m -> S] : m \in 0..n}

\* the options of a find request: projection, sort, limit, skip
FindOptionFields ==
    {<< >>,
     << <<"projection", Obj1("a", Num1)>>, <<"sort", Obj1("b", NumNeg7)>>,
        <<"limit", N(<<5>>)>>, <<"skip", N(<<2>>)>> >>,
     << <<"limit", NumNeg7>>, <<"skip", N(<<0>>)>> >>,
     << <<"sort", Obj1("a", Num1)>>, <<"limit", JNull>> >>}

\* the fields that go with the envelope, for each operation
FieldsOf(path) ==
    CASE path = "/api/insertOne" ->
           {<< <<"document", d>> >> : d \in ReqDocs \cup {Absent}}
      [] path = "/api/insertMany" ->
           {<< <<"documents", JArr(ds)>> >> : ds \in SeqsUpTo(ManyDocs, MaxDocuments)}
           \cup {<< >>}
      [] path = "/api/findOne" ->
           {<< <<"filter", d>>, <<"projection", pr>> >> :
                d \in ReqDocs \cup {Absent}, pr \in {Absent, Obj1("a", Num1)}}
      [] path = "/api/find" ->
           {<< <<"filter", d>> >> \o o :
                d \in {GoodDoc, BadDoc, JObj(<<>>), Absent}, o \in FindOptionFields}
      [] path \in {"/api/updateOne", "/api/updateMany"} ->
           {<< <<"filter", d>>, <<"update", u>>, <<"upsert", up>> >> :
                d \in {GoodDoc, BadDoc, Obj1("a", Num1e10), Absent},
                u \in Updates \cup {Absent}, up \in {Absent, JBool(TRUE)}}
      [] path \in {"/api/deleteOne", "/api/deleteMany"} ->
           {<< <<"filter", d>> >> : d \in ReqDocs \cup {Absent}}
      [] path = "/api/aggregate" ->
           {<< <<"pipeline", JArr(ps)>> >> : ps \in SeqsUpTo(Stages, MaxDocuments)}
           \cup {<< >>}

\* one set of fields the operation accepts
GoodFields(path) ==
    CASE path = "/api/insertOne" -> << <<"document", GoodDoc>> >>
      [] path = "/api/insertMany" -> << <<"documents", JArr(<<GoodDoc>>)>> >>
      [] path \in {"/api/updateOne", "/api/updateMany"} ->
           << <<"filter", GoodDoc>>, <<"update", Obj1("$set", Obj1("a", Num42p0))>> >>
      [] path = "/api/aggregate" ->
           << <<"pipeline", JArr(<<Obj1("$match", Obj1("a", Num42p0))>>)>> >>
      [] OTHER -> << <<"filter", GoodDoc>> >>

\* bodies BodyParser cannot turn into a Document
BrokenBodies(path) ==
    {Garbage, Absent, JArr(<<>>),
     Envelope(Num42, CollName, GoodFields(path)),
     Envelope(DbName, CollName, GoodFields(path) \o << <<"limit", Num1p5>> >>),
     Envelope(DbName, CollName, << <<"filter", StrV>>, <<"document", StrV>> >>),
     Envelope(DbName, CollName, << <<"documents", GoodDoc>>, <<"pipeline", GoodDoc>> >>)}

BodiesOf(path) ==
    IF path \in OpenPaths THEN {Absent}
    ELSE {Envelope(DbName, CollName, fs) : fs \in FieldsOf(path)}
         \cup {Envelope(database, collection, GoodFields(path)) :
                 database \in Names(DbName), collection \in Names(CollName)}
         \cup BrokenBodies(path)

\* the query string of a request: none, or ?x=1
NoQuery == <<>>
SomeQuery == <<"x", "=", "1">>

Requests ==
    UNION {{[path |-> path, query |-> NoQuery, apiKey |-> k, body |-> b] :
               k \in Headers, b \in BodiesOf(path)} :
           path \in OperationPaths \cup OpenPaths}
    \cup {[path |-> path, query |-> SomeQuery, apiKey |-> KeySet,
           body |-> IF path \in OpenPaths THEN Absent
                    ELSE Envelope(DbName, CollName, GoodFields(path))] :
            path \in OperationPaths \cup OpenPaths}

-----------------------------------------------------------------------------
(* The storage layer as the handlers see it                                *)

\* db.GetCollection: the handle for a database and a collection of the client
GetCollection(database, collection) == [db |-> database, coll |-> collection]

Unset == [t |-> "unset"]
\* context.Background(): never cancelled, no deadline
Background == [deadline |-> "none"]
\* zero counted in
IsNotNegative(i) == ~i.neg
IsPositive(i) == ~i.neg /\ i.mag # <<0>>
Int64Of(n) == BInt64(MkInt(FALSE, NatDigits(n)))

OperatorKeys ==
    {"$date", "$match", "$numberDouble", "$numberLong", "$oid", "$project", "$set"}

\* the calls the driver or the server refuses whatever the collection holds: an
\* empty database or collection name, a nil document, no documents, an update
\* that is not made of update operators, a pipeline stage that is no document
MustFail(c) ==
    \/ c.ns.db = <<>>
    \/ c.ns.coll = <<>>
    \/ c.op = "InsertOne" /\ c.document.t = "null"
    \/ c.op = "InsertMany"
         /\ (c.documents = <<>> \/ \E i \in 1..Len(c.documents) : c.documents[i].t = "null")
    \/ c.op \in {"FindOne", "Find", "UpdateOne", "UpdateMany", "DeleteOne", "DeleteMany"}
         /\ c.filter.t = "null"
    \/ c.op \in {"UpdateOne", "UpdateMany"}
         /\ (c.update.t = "null" \/ c.update.es = <<>>
               \/ c.update.es[1][1] \notin OperatorKeys)
    \/ c.op = "Aggregate"
         /\ (c.pipeline.t = "null"
               \/ \E i \in 1..Len(c.pipeline.xs) : c.pipeline.xs[i].t # "document")

\* the documents a collection may return
GeneratedID == [i \in 1..24 |-> 10]
StoredDocs ==
    {BD(<< <<"_id", BObjectID(GeneratedID)>>,
           <<"a", BDateTime(MkInt(FALSE, <<1,7,0,4,0,6,7,2,0,0,0,0,0>>))>> >>),
     BD(<< <<"a", Int64Of(5)>>, <<"b", BDouble(FFin(FALSE, <<1,5>>, -1))>> >>),
     BD(<< <<"a", BInt64(MkInt(FALSE, <<9,0,0,7,1,9,9,2,5,4,7,4,0,9,9,3>>))>> >>),
     BD(<< <<"a", BRegex(<<"x">>, <<"\"">>)>> >>)}
ResultSets == SeqsUpTo(StoredDocs, 1) \cup
    {<<BD(<< <<"a", Int64Of(5)>> >>), BD(<< <<"a", BInt32(MkInt(TRUE, <<7>>))>> >>)>>}

IdOf(d) ==
    IF \E i \in 1..Len(d.es) : d.es[i][1] = "_id" THEN FieldOf(d, "_id")
    ELSE BObjectID(GeneratedID)

UpdateResults(upsert) ==
    {[MatchedCount |-> 1, ModifiedCount |-> 1, UpsertedCount |-> 0, UpsertedID |-> BNull],
     [MatchedCount |-> 1, ModifiedCount |-> 0, UpsertedCount |-> 0, UpsertedID |-> BNull],
     [MatchedCount |-> 0, ModifiedCount |-> 0, UpsertedCount |-> 0, UpsertedID |-> BNull]}
    \cup (IF upsert
          THEN {[MatchedCount |-> 0, ModifiedCount |-> 0, UpsertedCount |-> 1,
                 UpsertedID |-> BObjectID(GeneratedID)]}
          ELSE {})

Failed(e) == [kind |-> "error", err |-> e]

\* what a call may come back with when the storage layer does answer
OkAnswers(c) ==
    CASE c.op = "InsertOne" -> {[kind |-> "ok", InsertedID |-> IdOf(c.document)]}
      [] c.op = "InsertMany" ->
           {[kind |-> "ok",
             InsertedIDs |-> [i \in 1..Len(c.documents) |-> IdOf(c.documents[i])]]}
      [] c.op = "FindOne" ->
           {[kind |-> "noDocuments", err |-> "ErrNoDocuments"]}
           \cup {[kind |-> "ok", result |-> d] : d \in StoredDocs}
      [] c.op \in {"Find", "Aggregate"} ->
           {[kind |-> "cursorError", err |-> "CursorError"]}
           \cup {[kind |-> "ok", results |-> rs] : rs \in ResultSets}
      [] c.op \in {"UpdateOne", "UpdateMany"} ->
           {[kind |-> "ok", result |-> r] : r \in UpdateResults(c.upsert)}
      [] c.op \in {"DeleteOne", "DeleteMany"} ->
           {[kind |-> "ok", DeletedCount |-> n] : n \in {0, 1}}

Answers(c) ==
    IF MustFail(c) THEN {Failed("InvalidArgument")}
    ELSE {Failed("ServerError")} \cup OkAnswers(c)

-----------------------------------------------------------------------------
(* Responses                                                               *)

Reply(status, body) == [status |-> status, body |-> body]
\* fiber.Map{"error": msg} and fiber.Map{"error": msg, "details": err.Error()}
ErrorBody(msg) == [t |-> "error", error |-> msg]
ErrorDetails(msg, details) == [t |-> "error", error |-> msg, details |-> details]
ForbiddenBody == [t |-> "message", message |-> "Forbidden: Invalid API Key "]

\* a storage error as every handler but Aggregate answers it
StorageFailure(a) == Reply(StatusInternalServerError, ErrorBody(a.err))

\* every error of Decode answered as a failure
FindOneFailureAlways(a) == Reply(StatusInternalServerError, ErrorBody(a.err))

\* FindOne's answer to an error of Decode
FindOneFailure(a) ==
    IF a.kind = "noDocuments"
    THEN Reply(StatusOK, GMap(<< <<"document", GNil>> >>))
    ELSE StorageFailure(a)

\* serializeOutput of the wrapped result, then c.JSON
Serialized(serializedResult, failure) ==
    IF serializedResult.ok THEN Reply(StatusOK, serializedResult.v)
    ELSE Reply(StatusInternalServerError, failure)
JSONResult(wrappedResult, failure) == Serialized(serializeOutput(wrappedResult), failure)

SerializeFailure == ErrorBody("Failed to serialize result")

-----------------------------------------------------------------------------
(* main.go: start-up, the two middlewares, the routes without a handler file *)

boot == <<phase, client, apiKeyEnv>>

Init ==
    /\ phase = "boot" /\ client = "nil"
    /\ apiKeyEnv \in {<<>>, KeySet}
    /\ req = NoReq /\ pc = "idle" /\ doc = NoDoc /\ parsed = FALSE
    /\ decodes = <<>> /\ calls = <<>> /\ answer = NoAnswer /\ resp = NoResp
    /\ invoked = "none" /\ recorded = <<>> /\ logged = FALSE /\ parked = NoLocals
    /\ cin = JObj(<<>>) /\ cstage = "off" /\ cval = NoDoc

\* db.Connect: mongo.Connect, then Ping; main exits through log.Fatal on an error
Connect ==
    /\ phase = "boot"
    /\ \E outcome \in {"connectError", "pingError", "ok"} :
         /\ client' = IF outcome = "connectError" THEN "nil" ELSE "connected"
         /\ phase' = IF outcome = "ok" THEN "connected" ELSE "exited"
    /\ UNCHANGED <<apiKeyEnv, req, pc, doc, parsed, decodes, calls, answer, resp,
                   invoked, recorded, logged, cvars, parked>>

\* app.Listen starts serving, or returns at once and log.Fatal ends the process
Listen ==
    /\ phase = "connected"
    /\ \E listening \in BOOLEAN :
         phase' = IF listening THEN "serving" ELSE "exited"
    /\ UNCHANGED <<client, apiKeyEnv, req, pc, doc, parsed, decodes, calls, answer,
                   resp, invoked, recorded, logged, cvars, parked>>

\* app.Listen returns with an error while the server is serving, and log.Fatal
\* ends the process: os.Exit runs no deferred call, so main's deferred db.Close
\* does not run and whatever request is in flight goes no further
ListenReturns ==
    /\ phase = "serving"
    /\ phase' = "exited"
    /\ UNCHANGED <<client, apiKeyEnv, req, pc, doc, parsed, decodes, calls, answer,
                   resp, invoked, recorded, logged, cvars, parked>>

\* a request of rs arrives
ReceiveAmong(rs) ==
    /\ phase = "serving"
    /\ pc = "idle"
    /\ \E r \in rs : req' = r
    /\ pc' = "apikey"
    /\ UNCHANGED <<boot, doc, parsed, decodes, calls, answer, resp, invoked, recorded,
                   logged, cvars, parked>>

\* the response is on the wire and the request is over; what was noted about it
\* is forgotten
Done ==
    /\ phase = "serving" /\ pc = "sent"
    /\ pc' = "idle"
    /\ req' = NoReq /\ doc' = NoDoc /\ parsed' = FALSE /\ decodes' = <<>>
    /\ calls' = <<>> /\ answer' = NoAnswer /\ resp' = NoResp /\ invoked' = "none"
    /\ recorded' = <<>> /\ logged' = FALSE
    /\ UNCHANGED <<boot, cvars, parked>>

\* a check that lets every key through
KeyAlways(apiKey) == TRUE
\* a check that accepts nothing while API_KEY is not set
KeyAcceptedWhenSet(apiKey) == apiKeyEnv # <<>> /\ apiKey = apiKeyEnv
\* the key of a request against the API_KEY of the environment
KeyAccepted(apiKey) == apiKey = apiKeyEnv

\* a check that spares no path
KeyCheckedEveryPath(path) == TRUE
\* c.Path() is neither /api/health nor /metrics: the key is checked
KeyChecked(path) == path \notin OpenPaths

\* 403 returned to a metrics middleware registered first
RejectedInsideMetrics == pc' = "after" /\ resp' = Reply(StatusForbidden, ForbiddenBody)
\* 403 returned without c.Next(): no later middleware and no handler runs
Rejected == pc' = "sent" /\ resp' = Reply(StatusForbidden, ForbiddenBody)

\* the API key middleware
ApiKeyMiddleware ==
    /\ phase = "serving" /\ pc = "apikey"
    /\ IF ~KeyChecked(req.path) \/ KeyAccepted(req.apiKey)
       THEN pc' = "metrics" /\ resp' = resp
       ELSE Rejected
    /\ UNCHANGED <<boot, req, doc, parsed, decodes, calls, answer, invoked, recorded,
                   logged, cvars, parked>>

\* the metrics middleware up to c.Next()
MetricsMiddleware ==
    /\ phase = "serving" /\ pc = "metrics"
    /\ pc' = "route"
    /\ UNCHANGED <<boot, req, doc, parsed, decodes, calls, answer, resp, invoked,
                   recorded, logged, cvars, parked>>

\* the duration in milliseconds above which a request is logged
LogThreshold == 100

\* c.OriginalURL(): the request URI as sent, the query string with it
OriginalURL(r) == IF r.query = NoQuery THEN r.path ELSE <<r.path, "?", r.query>>
\* the URLs the metrics middleware records
validRoutes == OperationPaths

\* the durations a request may be measured to have taken, in milliseconds
Durations == {50, 150, 1500}

\* the metrics middleware after c.Next(): the log line, then RecordHTTPRequest
MetricsMiddlewareAfter ==
    /\ phase = "serving" /\ pc = "after"
    /\ \E duration \in Durations :
         /\ logged' = (duration > LogThreshold \/ resp.status # StatusOK)
         /\ recorded' =
              IF OriginalURL(req) \in validRoutes
              THEN <<[method |-> "POST", path |-> OriginalURL(req),
                      status |-> resp.status, duration |-> duration]>>
              ELSE <<>>
    /\ pc' = "sent"
    /\ UNCHANGED <<boot, req, doc, parsed, decodes, calls, answer, resp, invoked, cvars, parked>>

\* GET /api/health
Health ==
    /\ phase = "serving" /\ pc = "route" /\ req.path = "/api/health"
    /\ invoked' = "Health"
    /\ resp' = Reply(StatusOK, [t |-> "status", status |-> "ok"])
    /\ pc' = "after"
    /\ UNCHANGED <<boot, req, doc, parsed, decodes, calls, answer, recorded, logged, cvars, parked>>

\* GET /metrics: metrics.Handler
Handler ==
    /\ phase = "serving" /\ pc = "route" /\ req.path = "/metrics"
    /\ invoked' = "Handler"
    /\ resp' = Reply(StatusOK, [t |-> "metrics"])
    /\ pc' = "after"
    /\ UNCHANGED <<boot, req, doc, parsed, decodes, calls, answer, recorded, logged, cvars, parked>>

-----------------------------------------------------------------------------
(* handlers.go: the nine handlers, each up to its storage call and from the *)
(* storage layer's answer on                                               *)

\* the handler returns with the response r
Return(r) == resp' = r /\ pc' = "after"
\* the storage call c issued a second time
IssueTwice(c) == calls' = Append(Append(calls, c), c) /\ pc' = "storage" /\ resp' = resp
\* the handler issues the storage call c and waits for the answer
Issue(c) == calls' = Append(calls, c) /\ pc' = "storage" /\ resp' = resp

Decoded(field, r) == [field |-> field, ok |-> r.ok]
\* the message without the field it is about
DeserializeFailureUnnamed(field) == ErrorBody(<<"Failed to deserialize", "input">>)
\* fiber.Map{"error": "Failed to deserialize <field>"}
DeserializeFailure(field) == ErrorBody(<<"Failed to deserialize", field>>)
\* the router reaches the handler registered for the path
Routed(path, name) ==
    /\ phase = "serving" /\ pc = "route" /\ req.path = path
    /\ invoked' = name
    /\ parsed' = TRUE
    /\ UNCHANGED <<boot, req, answer, recorded, logged, cvars, parked>>

\* BodyParser failed: 400 with its error
Unparsed(d) ==
    /\ Return(Reply(StatusBadRequest, ErrorBody(d.err)))
    /\ UNCHANGED <<doc, decodes, calls>>

\* the storage call of the handler returns
Waiting(name) ==
    /\ phase = "serving" /\ pc = "storage" /\ invoked = name
    /\ pc' = "after"
    /\ UNCHANGED <<boot, req, doc, parsed, decodes, calls, invoked, recorded, logged, cvars, parked>>

\* a handler that decodes the filter only, from deserializeInput's result on
FilterDecoded(d, op, detailed, deserializedFilter) ==
    /\ decodes' = <<Decoded("filter", deserializedFilter)>>
    /\ IF ~deserializedFilter.ok
       THEN /\ Return(Reply(StatusBadRequest,
                            IF detailed
                            THEN ErrorDetails(<<"Failed to deserialize", "filter">>,
                                              deserializedFilter.err)
                            ELSE DeserializeFailure("filter")))
            /\ calls' = calls
       ELSE Issue([op |-> op, ctx |-> Background,
                   ns |-> GetCollection(d.Database, d.Collection),
                   filter |-> deserializedFilter.v,
                   projection |-> IF op \in {"FindOne", "Find"} /\ d.Projection # GNil
                                  THEN d.Projection ELSE Unset,
                   sort |-> IF op = "Find" /\ d.Sort # GNil THEN d.Sort ELSE Unset,
                   limit |-> IF op = "Find" /\ IsPositive(d.Limit)
                             THEN d.Limit ELSE Unset,
                   skip |-> IF op = "Find" /\ IsPositive(d.Skip)
                            THEN d.Skip ELSE Unset])
FilterOnly(d, op, detailed) ==
    FilterDecoded(d, op, detailed, deserializeInput(d.Filter))

\* the update issued as an upsert whatever the request says
UpdateDecodedUpserting(d, op, deserializedFilter, deserializedUpdate) ==
    /\ decodes' = <<Decoded("filter", deserializedFilter),
                    Decoded("update", deserializedUpdate)>>
    /\ IF ~deserializedFilter.ok \/ ~deserializedUpdate.ok
       THEN /\ Return(Reply(StatusBadRequest, DeserializeFailure("update")))
            /\ calls' = calls
       ELSE Issue([op |-> op, ctx |-> Background,
                   ns |-> GetCollection(d.Database, d.Collection),
                   filter |-> deserializedFilter.v,
                   update |-> deserializedUpdate.v, upsert |-> TRUE])

\* a handler that decodes the filter, then the update
UpdateDecoded(d, op, deserializedFilter, deserializedUpdate) ==
    IF ~deserializedFilter.ok
    THEN /\ decodes' = <<Decoded("filter", deserializedFilter)>>
         /\ Return(Reply(StatusBadRequest, DeserializeFailure("filter")))
         /\ calls' = calls
    ELSE /\ decodes' = <<Decoded("filter", deserializedFilter),
                         Decoded("update", deserializedUpdate)>>
         /\ IF ~deserializedUpdate.ok
            THEN /\ Return(Reply(StatusBadRequest, DeserializeFailure("update")))
                 /\ calls' = calls
            ELSE Issue([op |-> op, ctx |-> Background,
                        ns |-> GetCollection(d.Database, d.Collection),
                        filter |-> deserializedFilter.v,
                        update |-> deserializedUpdate.v, upsert |-> d.Upsert])
FilterAndUpdate(d, op) ==
    UpdateDecoded(d, op, deserializeInput(d.Filter), deserializeInput(d.Update))

InsertOneDecoded(d, deserializedDoc) ==
    /\ decodes' = <<Decoded("document", deserializedDoc)>>
    /\ IF ~deserializedDoc.ok
       THEN /\ Return(Reply(StatusBadRequest, DeserializeFailure("document")))
            /\ calls' = calls
       ELSE Issue([op |-> "InsertOne", ctx |-> Background,
                   ns |-> GetCollection(d.Database, d.Collection),
                   document |-> deserializedDoc.v])
InsertOneRun(d) == InsertOneDecoded(d, deserializeInput(d.Document))
InsertOneParsed(d) == IF ~d.ok THEN Unparsed(d) ELSE doc' = d.v /\ InsertOneRun(d.v)
InsertOne ==
    /\ Routed("/api/insertOne", "InsertOne")
    /\ InsertOneParsed(BodyParser(req.body))

InsertOneResponse(a) ==
    IF a.kind # "ok" THEN StorageFailure(a)
    ELSE JSONResult(BD(<< <<"insertedId", a.InsertedID>> >>), SerializeFailure)
InsertOneAnswered ==
    /\ Waiting("InsertOne")
    /\ \E a \in Answers(calls[1]) : answer' = a /\ resp' = InsertOneResponse(a)

\* each document stored as soon as it is decoded, up to the first that fails
InsertManyEach(d, all) ==
    LET failed == {i \in 1..Len(all) : ~all[i].ok}
        last   == IF failed = {} THEN Len(all)
                  ELSE CHOOSE i \in failed : \A n \in failed : i <= n
    IN  /\ decodes' = [i \in 1..last |-> Decoded("document", all[i])]
        /\ IF failed # {}
           THEN /\ Return(Reply(StatusBadRequest, DeserializeFailure("document")))
                /\ calls' = Append(calls, [op |-> "InsertMany", ctx |-> Background,
                                           ns |-> GetCollection(d.Database, d.Collection),
                                           documents |-> [i \in 1..(last - 1) |-> all[i].v]])
           ELSE Issue([op |-> "InsertMany", ctx |-> Background,
                       ns |-> GetCollection(d.Database, d.Collection),
                       documents |-> [i \in 1..Len(all) |-> all[i].v]])

\* the documents decoded one by one; the loop ends at the first that fails
InsertManyDecoded(d, all) ==
    LET failed == {i \in 1..Len(all) : ~all[i].ok}
        last   == IF failed = {} THEN Len(all)
                  ELSE CHOOSE i \in failed : \A n \in failed : i <= n
    IN  /\ decodes' = [i \in 1..last |-> Decoded("document", all[i])]
        /\ IF failed # {}
           THEN /\ Return(Reply(StatusBadRequest, DeserializeFailure("document")))
                /\ calls' = calls
           ELSE Issue([op |-> "InsertMany", ctx |-> Background,
                       ns |-> GetCollection(d.Database, d.Collection),
                       documents |-> [i \in 1..Len(all) |-> all[i].v]])
InsertManyRun(d) ==
    LET documents == IF d.Documents = GNil THEN <<>> ELSE d.Documents.xs
    IN  InsertManyDecoded(d, [i \in 1..Len(documents) |-> deserializeInput(documents[i])])
InsertManyParsed(d) == IF ~d.ok THEN Unparsed(d) ELSE doc' = d.v /\ InsertManyRun(d.v)
InsertMany ==
    /\ Routed("/api/insertMany", "InsertMany")
    /\ InsertManyParsed(BodyParser(req.body))

InsertManyResponse(a) ==
    IF a.kind # "ok" THEN StorageFailure(a)
    ELSE JSONResult(BD(<< <<"insertedIds", BA(a.InsertedIDs)>> >>), SerializeFailure)
InsertManyAnswered ==
    /\ Waiting("InsertMany")
    /\ \E a \in Answers(calls[1]) : answer' = a /\ resp' = InsertManyResponse(a)

FindOneRun(d) == FilterOnly(d, "FindOne", TRUE)
FindOneParsed(d) == IF ~d.ok THEN Unparsed(d) ELSE doc' = d.v /\ FindOneRun(d.v)
FindOne ==
    /\ Routed("/api/findOne", "FindOne")
    /\ FindOneParsed(BodyParser(req.body))

FindOneResponse(a) ==
    IF a.kind # "ok" THEN FindOneFailure(a)
    ELSE JSONResult(BD(<< <<"document", a.result>> >>), SerializeFailure)
FindOneAnswered ==
    /\ Waiting("FindOne")
    /\ \E a \in Answers(calls[1]) : answer' = a /\ resp' = FindOneResponse(a)

FindRun(d) == FilterOnly(d, "Find", TRUE)
FindParsed(d) == IF ~d.ok THEN Unparsed(d) ELSE doc' = d.v /\ FindRun(d.v)
Find ==
    /\ Routed("/api/find", "Find")
    /\ FindParsed(BodyParser(req.body))

FindResponse(a) ==
    CASE a.kind = "error" -> StorageFailure(a)
      [] a.kind = "cursorError" ->
           Reply(StatusInternalServerError, ErrorBody("Failed to decode results"))
      [] a.kind = "ok" ->
           JSONResult(BD(<< <<"documents", BA(a.results)>> >>), SerializeFailure)
FindAnswered ==
    /\ Waiting("Find")
    /\ \E a \in Answers(calls[1]) : answer' = a /\ resp' = FindResponse(a)

UpdateOneRun(d) == FilterAndUpdate(d, "UpdateOne")
UpdateOneParsed(d) == IF ~d.ok THEN Unparsed(d) ELSE doc' = d.v /\ UpdateOneRun(d.v)
UpdateOne ==
    /\ Routed("/api/updateOne", "UpdateOne")
    /\ UpdateOneParsed(BodyParser(req.body))

UpdateOneResponse(a) ==
    IF a.kind # "ok" THEN StorageFailure(a)
    ELSE JSONResult(BD(<< <<"upsertedId", a.result.UpsertedID>>,
                          <<"upsertedCount", Int64Of(a.result.UpsertedCount)>>,
                          <<"modifiedCount", Int64Of(a.result.ModifiedCount)>>,
                          <<"matchedCount", Int64Of(a.result.MatchedCount)>> >>),
                    SerializeFailure)
UpdateOneAnswered ==
    /\ Waiting("UpdateOne")
    /\ \E a \in Answers(calls[1]) : answer' = a /\ resp' = UpdateOneResponse(a)

UpdateManyRun(d) == FilterAndUpdate(d, "UpdateMany")
UpdateManyParsed(d) == IF ~d.ok THEN Unparsed(d) ELSE doc' = d.v /\ UpdateManyRun(d.v)
UpdateMany ==
    /\ Routed("/api/updateMany", "UpdateMany")
    /\ UpdateManyParsed(BodyParser(req.body))

UpdateManyResponse(a) ==
    IF a.kind # "ok" THEN StorageFailure(a)
    ELSE JSONResult(BD(<< <<"modifiedCount", Int64Of(a.result.ModifiedCount)>>,
                          <<"matchedCount", Int64Of(a.result.MatchedCount)>> >>),
                    SerializeFailure)
UpdateManyAnswered ==
    /\ Waiting("UpdateMany")
    /\ \E a \in Answers(calls[1]) : answer' = a /\ resp' = UpdateManyResponse(a)

\* a *mongo.DeleteResult under "result": its DeletedCount is the BSON field n
DeleteResponse(a) ==
    IF a.kind # "ok" THEN StorageFailure(a)
    ELSE JSONResult(BD(<< <<"result", BD(<< <<"n", Int64Of(a.DeletedCount)>> >>)>> >>),
                    SerializeFailure)

DeleteOneRun(d) == FilterOnly(d, "DeleteOne", FALSE)
DeleteOneParsed(d) == IF ~d.ok THEN Unparsed(d) ELSE doc' = d.v /\ DeleteOneRun(d.v)
DeleteOne ==
    /\ Routed("/api/deleteOne", "DeleteOne")
    /\ DeleteOneParsed(BodyParser(req.body))
DeleteOneAnswered ==
    /\ Waiting("DeleteOne")
    /\ \E a \in Answers(calls[1]) : answer' = a /\ resp' = DeleteResponse(a)

DeleteManyRun(d) == FilterOnly(d, "DeleteMany", FALSE)
DeleteManyParsed(d) == IF ~d.ok THEN Unparsed(d) ELSE doc' = d.v /\ DeleteManyRun(d.v)
DeleteMany ==
    /\ Routed("/api/deleteMany", "DeleteMany")
    /\ DeleteManyParsed(BodyParser(req.body))
DeleteManyAnswered ==
    /\ Waiting("DeleteMany")
    /\ \E a \in Answers(calls[1]) : answer' = a /\ resp' = DeleteResponse(a)

AggregateDecoded(d, deserializedPipeline) ==
    /\ decodes' = <<Decoded("pipeline", deserializedPipeline)>>
    /\ IF ~deserializedPipeline.ok
       THEN /\ Return(Reply(StatusBadRequest,
                            ErrorDetails(<<"Failed to deserialize", "pipeline">>,
                                         deserializedPipeline.err)))
            /\ calls' = calls
       ELSE Issue([op |-> "Aggregate", ctx |-> Background,
                   ns |-> GetCollection(d.Database, d.Collection),
                   pipeline |-> deserializedPipeline.v])
AggregateRun(d) == AggregateDecoded(d, deserializeInput(d.Pipeline))
AggregateParsed(d) == IF ~d.ok THEN Unparsed(d) ELSE doc' = d.v /\ AggregateRun(d.v)
Aggregate ==
    /\ Routed("/api/aggregate", "Aggregate")
    /\ AggregateParsed(BodyParser(req.body))

\* the serialized results, or 500 with the error of serializeOutput as details
AggregateSerialized(serializedResults) ==
    IF serializedResults.ok THEN Reply(StatusOK, serializedResults.v)
    ELSE Reply(StatusInternalServerError,
               ErrorDetails("Failed to serialize results", serializedResults.err))

AggregateResponse(a) ==
    CASE a.kind = "error" ->
           Reply(StatusInternalServerError, ErrorDetails("Aggregation failed", a.err))
      [] a.kind = "cursorError" ->
           Reply(StatusInternalServerError,
                 ErrorDetails("Failed to read aggregation results", a.err))
      [] a.kind = "ok" ->
           AggregateSerialized(serializeOutput(BD(<< <<"documents", BA(a.results)>> >>)))
AggregateAnswered ==
    /\ Waiting("Aggregate")
    /\ \E a \in Answers(calls[1]) : answer' = a /\ resp' = AggregateResponse(a)

Receive == ReceiveAmong(Requests)

\* every step but the arrival of a request
Serve ==
    \/ Connect \/ Listen \/ ListenReturns \/ Done
    \/ ApiKeyMiddleware \/ MetricsMiddleware \/ MetricsMiddlewareAfter
    \/ Health \/ Handler
    \/ InsertOne \/ InsertOneAnswered \/ InsertMany \/ InsertManyAnswered
    \/ FindOne \/ FindOneAnswered \/ Find \/ FindAnswered
    \/ UpdateOne \/ UpdateOneAnswered \/ UpdateMany \/ UpdateManyAnswered
    \/ DeleteOne \/ DeleteOneAnswered \/ DeleteMany \/ DeleteManyAnswered
    \/ Aggregate \/ AggregateAnswered

Next == Receive \/ Serve

Spec == Init /\ [][Next]_vars

-----------------------------------------------------------------------------
(* Two requests in flight: fiber runs each handler in a goroutine of its own *)

\* the requests two clients send at the same time
ConcRequests ==
    {[path |-> path, query |-> NoQuery, apiKey |-> KeySet,
      body |-> Envelope(DbName, CollName, GoodFields(path))] : path \in OperationPaths}
    \cup {[path |-> path, query |-> NoQuery, apiKey |-> KeySet, body |-> Absent] :
             path \in OpenPaths}
    \cup {[path |-> "/api/findOne", query |-> NoQuery, apiKey |-> KeySet, body |-> b] :
             b \in {Envelope(DbName, JStr(<<>>),
                             << <<"filter", Obj1("a", Obj1("$date", DateZ))>> >>),
                    Envelope(DbName, CollName, << <<"filter", BadDoc>> >>)}}
    \cup {[path |-> "/api/findOne", query |-> NoQuery, apiKey |-> KeyOther, body |-> Garbage],
          [path |-> "/api/deleteOne", query |-> NoQuery, apiKey |-> KeySet, body |-> Garbage]}

\* the locals of a request if the Document were not one of them
LocalsWithoutDocument ==
    [req |-> req, pc |-> pc, doc |-> NoDoc, parsed |-> parsed, decodes |-> decodes,
     calls |-> calls, answer |-> answer, resp |-> resp, invoked |-> invoked,
     recorded |-> recorded, logged |-> logged]
\* what the goroutine of the request in hand has of its own: the *fiber.Ctx with
\* the request and the response, and the locals of the handler (doc, the
\* deserialized fields, result, err)
Locals ==
    [req |-> req, pc |-> pc, doc |-> doc, parsed |-> parsed, decodes |-> decodes,
     calls |-> calls, answer |-> answer, resp |-> resp, invoked |-> invoked,
     recorded |-> recorded, logged |-> logged]

\* the scheduler lets the other goroutine run: package-level state stays, each
\* goroutine finds its own locals as it left them
Switch ==
    /\ phase = "serving"
    /\ parked' = Locals
    /\ req' = parked.req /\ pc' = parked.pc /\ doc' = parked.doc
    /\ parsed' = parked.parsed /\ decodes' = parked.decodes /\ calls' = parked.calls
    /\ answer' = parked.answer /\ resp' = parked.resp /\ invoked' = parked.invoked
    /\ recorded' = parked.recorded /\ logged' = parked.logged
    /\ UNCHANGED <<boot, cvars>>

ConcReceive == ReceiveAmong(ConcRequests)

ConcNext == ConcReceive \/ Switch \/ Serve

ConcSpec == Init /\ [][ConcNext]_vars

-----------------------------------------------------------------------------
(* C2, C3: what reaches the storage call                                   *)

\* the field of the request body a call's first argument was decoded from
WrittenField(c) ==
    Lookup(req.body, IF c.op = "InsertOne" THEN "document" ELSE "filter")
FirstArgument(c) == IF c.op = "InsertOne" THEN c.document ELSE c.filter

\* C2 as claimed: a number written without fraction or exponent that fits 64
\* bits reaches the storage call as an integer (the 32-bit integer of BSON
\* counted as one), a number written with a fraction or an exponent as a double
C2_NumericInference ==
    \A i \in 1..Len(calls) :
        (/\ calls[i].op \notin {"InsertMany", "Aggregate"}
         /\ WrittenField(calls[i]).t = "obj"
         /\ Lookup(WrittenField(calls[i]), "a").t = "num") =>
            LET n == Lookup(WrittenField(calls[i]), "a")
                v == FieldOf(FirstArgument(calls[i]), "a")
            IN  IF n.frac = <<>> /\ ~n.hasExp
                THEN FitsInt64(MkInt(n.neg, n.int)) => v.t \in {"int32", "int64"}
                ELSE v.t = "double"

\* the keys of a decoded value are those written, in the order written, at
\* every level
RECURSIVE KeysAsWritten(_, _)
KeysAsWritten(j, b) ==
    CASE j.t = "obj" /\ b.t = "document" ->
           /\ Len(j.ms) = Len(b.es)
           /\ \A i \in 1..Len(j.ms) :
                j.ms[i][1] = b.es[i][1] /\ KeysAsWritten(j.ms[i][2], b.es[i][2])
      [] j.t = "arr" /\ b.t = "array" ->
           /\ Len(j.xs) = Len(b.xs)
           /\ \A i \in 1..Len(j.xs) : KeysAsWritten(j.xs[i], b.xs[i])
      [] OTHER -> TRUE

\* C3 as claimed: every stage of the pipeline reaches Aggregate's storage call
\* with its keys in the order the client wrote them
C3_PipelineKeyOrder ==
    \A i \in 1..Len(calls) :
        calls[i].op = "Aggregate" /\ calls[i].pipeline.t = "array" =>
            KeysAsWritten(Lookup(req.body, "pipeline"), calls[i].pipeline)

-----------------------------------------------------------------------------
(* C6 to C10: the answers of the handlers and of the API key middleware    *)

Handlers ==
    {"InsertOne", "InsertMany", "FindOne", "Find", "UpdateOne", "UpdateMany",
     "DeleteOne", "DeleteMany", "Aggregate"}
Handled == pc \in {"storage", "after", "sent"} /\ invoked \in Handlers

\* the first field of the Document, in the order the handler decodes them, on
\* which deserializeInput fails, or "none"
FirstFailing(name, d) ==
    CASE name = "InsertOne" ->
           IF ~deserializeInput(d.Document).ok THEN "document" ELSE "none"
      [] name = "InsertMany" ->
           IF /\ d.Documents # GNil
              /\ \E i \in 1..Len(d.Documents.xs) : ~deserializeInput(d.Documents.xs[i]).ok
           THEN "document" ELSE "none"
      [] name \in {"FindOne", "Find", "DeleteOne", "DeleteMany"} ->
           IF ~deserializeInput(d.Filter).ok THEN "filter" ELSE "none"
      [] name \in {"UpdateOne", "UpdateMany"} ->
           IF ~deserializeInput(d.Filter).ok THEN "filter"
           ELSE IF ~deserializeInput(d.Update).ok THEN "update" ELSE "none"
      [] name = "Aggregate" ->
           IF ~deserializeInput(d.Pipeline).ok THEN "pipeline" ELSE "none"

\* C6: once a handler has parsed a body of which a field it decodes fails
\* deserializeInput, the response is 400 with an error naming that field and no
\* storage operation was issued
C6_DecodeFailureIs400 ==
    Handled /\ doc # NoDoc /\ FirstFailing(invoked, doc) # "none" =>
        /\ resp # NoResp
        /\ resp.status = 400
        /\ resp.body.t = "error"
        /\ resp.body.error = <<"Failed to deserialize", FirstFailing(invoked, doc)>>
        /\ calls = <<>>
        /\ answer = NoAnswer
        /\ \E i \in 1..Len(decodes) : ~decodes[i].ok

\* UpdateOne answered 400 for an update that cannot be decoded after a filter
\* that can
C6_Witness ==
    /\ pc = "sent" /\ invoked = "UpdateOne" /\ doc # NoDoc
    /\ FirstFailing(invoked, doc) = "update"
    /\ Len(decodes) = 2
    /\ resp.status = 400

\* C7: once a handler has run on a body BodyParser cannot parse, the response
\* is 400 with an error body, nothing was decoded and no storage operation was
\* issued
C7_UnparsedBodyIs400 ==
    Handled /\ req.body \in BrokenBodies(req.path) =>
        /\ resp # NoResp
        /\ resp.status = 400
        /\ resp.body.t = "error" /\ DOMAIN resp.body = {"t", "error"}
        /\ doc = NoDoc
        /\ decodes = <<>>
        /\ calls = <<>>
        /\ answer = NoAnswer

\* DeleteMany answered 400 for a body whose filter is a string
C7_Witness ==
    /\ pc = "sent" /\ invoked = "DeleteMany"
    /\ req.body.t = "obj" /\ Lookup(req.body, "filter").t = "str"
    /\ resp.status = 400 /\ calls = <<>>

\* a database or collection name that is missing or empty
NoName(v) == v.t \in {"absent", "null"} \/ (v.t = "str" /\ v.s = <<>>)

\* C8 as claimed: once a handler has run on a body whose database or
\* collection is missing or empty, the response is 400 and no storage
\* operation was issued
C8_EnvelopeValidated ==
    (/\ Handled /\ req.body.t = "obj"
     /\ (NoName(Lookup(req.body, "database")) \/ NoName(Lookup(req.body, "collection")))) =>
        /\ resp # NoResp
        /\ resp.status = 400
        /\ calls = <<>>

\* C9: a request to an operation route whose apiKey header is not API_KEY is,
\* once the API key middleware has run, answered 403 and over: no handler was
\* invoked, the body was not parsed, nothing decoded, no storage operation
C9_WrongKeyForbidden ==
    (/\ req # NoReq /\ req.path \in OperationPaths
     /\ req.apiKey # apiKeyEnv /\ pc # "apikey") =>
        /\ pc = "sent"
        /\ resp = Reply(403, ForbiddenBody)
        /\ invoked = "none"
        /\ ~parsed
        /\ decodes = <<>>
        /\ calls = <<>>

\* a request without the header, to a server whose API_KEY is set, was refused
C9_Witness ==
    /\ pc = "sent" /\ req.path = "/api/aggregate"
    /\ req.apiKey = <<>> /\ apiKeyEnv = KeySet
    /\ resp.status = 403 /\ invoked = "none"

\* C10: when the storage layer answers FindOne with ErrNoDocuments the response
\* is 200 with {"document": null}, which no answer with a document produces,
\* and never 500
C10_NotFoundIsNotFailure ==
    /\ (answer # NoAnswer /\ answer.kind = "noDocuments") =>
          /\ invoked = "FindOne"
          /\ resp.status = 200
          /\ resp.body = GMap(<< <<"document", GNil>> >>)
    /\ (answer # NoAnswer /\ invoked = "FindOne" /\ answer.kind = "ok") =>
          resp.body # GMap(<< <<"document", GNil>> >>)

C10_Witness ==
    /\ pc = "sent" /\ invoked = "FindOne"
    /\ answer # NoAnswer /\ answer.kind = "noDocuments"
    /\ resp.status = 200

-----------------------------------------------------------------------------
(* C11 to C13: not found, storage failures, encode failures                *)

\* C11 as claimed: when the storage layer answers FindOne with ErrNoDocuments
\* the response has status 404
C11_NotFoundIs404 ==
    (answer # NoAnswer /\ answer.kind = "noDocuments") => resp.status = 404

\* C12 as claimed: whenever the storage layer answers with an error, from the
\* call itself or while the cursor is read, the response is 500 and its "error"
\* is the storage layer's message
C12_StorageErrorVerbatim ==
    (answer # NoAnswer /\ answer.kind \in {"error", "cursorError"}) =>
        /\ resp.status = 500
        /\ resp.body.t = "error"
        /\ resp.body.error = answer.err

\* the documents an answer carries
Returned(name, a) ==
    IF a.kind # "ok" THEN <<>>
    ELSE IF name = "FindOne" THEN <<a.result>>
    ELSE IF name \in {"Find", "Aggregate"} THEN a.results
    ELSE <<>>

\* the storage layer answered with a document serializeOutput fails on
EncodeFails ==
    /\ answer # NoAnswer
    /\ \E i \in 1..Len(Returned(invoked, answer)) :
         ~serializeOutput(Returned(invoked, answer)[i]).ok

\* C13 as claimed: when serializeOutput fails the response is 500 and its body
\* is one generic message, nothing else
C13_EncodeFailureGeneric ==
    EncodeFails =>
        /\ resp.status = 500
        /\ DOMAIN resp.body = {"t", "error"}
        /\ resp.body.error \in {"Failed to serialize result", "Failed to serialize results"}

-----------------------------------------------------------------------------
(* C14: dates through the codec                                            *)

Millis2024 == MkInt(FALSE, <<1,7,0,4,0,6,7,2,0,0,0,0,0>>)

\* the value under the key k of a Go map
GField(g, k) == g.ms[CHOOSE i \in 1..Len(g.ms) : g.ms[i][1] = k][2]

\* a $date object whose payload is an integer that fits 64 bits
IntegerDate(j) ==
    /\ j.t = "obj" /\ Len(j.ms) = 1 /\ j.ms[1][1] = "$date"
    /\ j.ms[1][2].t = "num" /\ j.ms[1][2].frac = <<>> /\ ~j.ms[1][2].hasExp
    /\ FitsInt64(MkInt(j.ms[1][2].neg, j.ms[1][2].int))

-----------------------------------------------------------------------------
(* C15 to C19: envelopes, the storage call, large integers, the client     *)

GKeys(g) == {g.ms[i][1] : i \in 1..Len(g.ms)}

\* C15 as claimed: a successful update is answered with an object that has
\* matchedCount, modifiedCount and upsertedCount, a successful delete with an
\* object that has deletedCount
C15_SuccessEnvelopes ==
    (answer # NoAnswer /\ answer.kind = "ok" /\ resp.status = 200) =>
        /\ invoked \in {"UpdateOne", "UpdateMany"} =>
              {"matchedCount", "modifiedCount", "upsertedCount"} \subseteq GKeys(resp.body)
        /\ invoked \in {"DeleteOne", "DeleteMany"} =>
              "deletedCount" \in GKeys(resp.body)

\* C16 as claimed: every storage call is issued under a context with a deadline
C16_StorageCallBounded ==
    \A i \in 1..Len(calls) : calls[i].ctx.deadline # "none"

\* C17: a request issues at most one storage operation, whatever the storage
\* layer answers; one whose body was parsed and whose fields were all decoded
\* has issued exactly one, of the handler's verb; one whose body was not parsed
\* or of which a field failed to decode, or that reached no handler, none
C17_AtMostOnce ==
    /\ Len(calls) <= 1
    /\ (Handled /\ doc # NoDoc /\ FirstFailing(invoked, doc) = "none") =>
          Len(calls) = 1 /\ calls[1].op = invoked
    /\ (Handled /\ doc # NoDoc /\ FirstFailing(invoked, doc) # "none") => calls = <<>>
    /\ (Handled /\ doc = NoDoc) => calls = <<>>
    /\ invoked \notin Handlers => calls = <<>>

\* UpdateOne answered after the storage layer failed its one call
C17_Witness ==
    /\ pc = "sent" /\ invoked = "UpdateOne"
    /\ answer # NoAnswer /\ answer.kind = "error"
    /\ Len(calls) = 1 /\ resp.status = 500

\* an integer every float64 consumer reads exactly: below 2^53 in magnitude
SafeInteger(n) == DigitsLess(n.mag, Pow2Digits(53))

\* C18 as claimed: a 64-bit integer FindOne returns in the field a reaches the
\* response as the number itself when it is a safe integer, and not as a bare
\* number otherwise
C18_Int64Unchanged ==
    (/\ invoked = "FindOne" /\ answer # NoAnswer /\ answer.kind = "ok"
     /\ resp.status = 200
     /\ FieldOf(answer.result, "a").t = "int64") =>
        LET n   == FieldOf(answer.result, "a").i
            out == GField(GField(resp.body, "document"), "a")
        IN  IF SafeInteger(n) THEN out = GFloat64(FloatOf(n.neg, n.mag, 0))
            ELSE out.t # "float64"

\* C19 as claimed: when app.Listen returns, at once or after serving, the
\* process ends with the client released
C19_ReleasedWhenListenReturns ==
    [][(phase \in {"connected", "serving"} /\ phase' = "exited") =>
          client' # "connected"]_vars

-----------------------------------------------------------------------------
(* C20: two requests at the same time                                      *)

\* the response a handler writes for an answer of the storage layer
ResponseFor(name, a) ==
    CASE name = "InsertOne" -> InsertOneResponse(a)
      [] name = "InsertMany" -> InsertManyResponse(a)
      [] name = "FindOne" -> FindOneResponse(a)
      [] name = "Find" -> FindResponse(a)
      [] name = "UpdateOne" -> UpdateOneResponse(a)
      [] name = "UpdateMany" -> UpdateManyResponse(a)
      [] name \in {"DeleteOne", "DeleteMany"} -> DeleteResponse(a)
      [] name = "Aggregate" -> AggregateResponse(a)

\* the request with the locals l got its Document from its own body, its call
\* from its own Document, its answer for its own call and its response from
\* its own answer; the client was there when it called GetCollection
OwnOnly(l, d) ==
    /\ l.calls # <<>> => client = "connected"
    /\ l.parsed =>
          IF d.ok THEN l.doc = d.v
          ELSE l.doc = NoDoc /\ l.resp = Reply(StatusBadRequest, ErrorBody(d.err))
    /\ l.calls # <<>> =>
          /\ l.calls[1].op = l.invoked
          /\ l.calls[1].ns = GetCollection(l.doc.Database, l.doc.Collection)
    /\ l.answer # NoAnswer =>
          /\ l.answer \in Answers(l.calls[1])
          /\ l.resp = ResponseFor(l.invoked, l.answer)

OwnBody(l) == OwnOnly(l, IF l.parsed THEN BodyParser(l.req.body) ELSE Err("none"))

\* two requests for an operation with the same descriptor and the same answer,
\* at the same point
SameInput(l1, l2) ==
    /\ l1.req # NoReq /\ l1.req = l2.req /\ l1.req.path \in OperationPaths
    /\ l1.pc = l2.pc /\ l1.answer = l2.answer

\* stated of the request in hand: Switch puts either request in hand
NoSharedRequestState ==
    /\ OwnBody(Locals)
    /\ SameInput(Locals, parked) =>
          /\ doc = parked.doc /\ decodes = parked.decodes
          /\ calls = parked.calls /\ resp = parked.resp

\* a step writes db.client only before the server listens, never API_KEY, and
\* nothing of the parked request, which is put aside as it is
PackageStateKept ==
    /\ (client' # client) => (phase = "boot")
    /\ apiKeyEnv' = apiKeyEnv
    /\ (parked' # parked) => (parked' = Locals)

\* C20: with two requests in flight and their steps interleaved in every way,
\* db.client is written only before the server listens and is there whenever a
\* storage call is issued, API_KEY is never written, no step of one request
\* touches what the other has of its own, and the Document, the decoded fields,
\* the call and the response of each request are those its own body and the
\* answer to its own call give, the same for two requests that sent the same
C20_NoSharedRequestState ==
    /\ []NoSharedRequestState
    /\ [][PackageStateKept]_vars

\* two findOne requests with different bodies, the first answered while the
\* second, parked, waits for the storage layer
C20_Witness ==
    /\ pc = "sent" /\ answer # NoAnswer /\ invoked = "FindOne"
    /\ parked.pc = "storage" /\ parked.invoked = "FindOne"
    /\ req.body # parked.req.body

-----------------------------------------------------------------------------
(* C21 to C28: the middlewares, the options of find and update, insertMany  *)

C22_RecordedOnce ==
    pc = "sent" =>
        /\ invoked \in Handlers =>
              /\ Len(recorded) = 1
              /\ recorded[1].method = "POST"
              /\ recorded[1].path = req.path
              /\ recorded[1].status = resp.status
        /\ req.path \in {"/api/health", "/metrics"} => recorded = <<>>

\* C23: the call of Find has a limit iff the limit of the request is above 0,
\* a skip iff its skip is above 0, a projection and a sort iff the request has
\* them, each as BodyParser left it (a map, not a decoded document); the call
\* of FindOne has a projection on the same terms; the filter of both is the
\* document deserializeInput made of the request's filter
C23_FindOptions ==
    \A i \in 1..Len(calls) :
        /\ calls[i].op = "Find" =>
              /\ calls[i].limit =
                    (IF ~doc.Limit.neg /\ doc.Limit.mag # <<0>> THEN doc.Limit ELSE Unset)
              /\ calls[i].skip =
                    (IF ~doc.Skip.neg /\ doc.Skip.mag # <<0>> THEN doc.Skip ELSE Unset)
              /\ calls[i].sort = (IF doc.Sort = GNil THEN Unset ELSE doc.Sort)
              /\ calls[i].sort # Unset => calls[i].sort.t = "map"
        /\ calls[i].op \in {"Find", "FindOne"} =>
              /\ calls[i].projection =
                    (IF doc.Projection = GNil THEN Unset ELSE doc.Projection)
              /\ calls[i].projection # Unset => calls[i].projection.t = "map"
              /\ deserializeInput(doc.Filter) = Ok(calls[i].filter)

\* Find called with a limit, a skip, a projection and a sort
C23_Witness ==
    /\ pc = "storage" /\ invoked = "Find"
    /\ calls[1].limit # Unset /\ calls[1].skip # Unset
    /\ calls[1].projection # Unset /\ calls[1].sort # Unset

\* C24 as claimed: a recorded request has been logged iff it took more than
\* 1000 ms or its status is not 200
C24_LoggedOnlyWhenSlow ==
    (pc = "sent" /\ recorded # <<>>) =>
        (logged <=> (recorded[1].duration > 1000 \/ resp.status # 200))

\* the documents of an insertMany request
DocumentsOf(d) == IF d.Documents = GNil THEN <<>> ELSE d.Documents.xs

\* C25: when deserializeInput fails on one of the documents of an insertMany
\* request, the response is 400 and no storage call has been issued; when it
\* fails on none, the one call carries them all
C25_InsertManyAllOrNothing ==
    (invoked = "InsertMany" /\ pc \in {"storage", "after", "sent"} /\ doc # NoDoc) =>
        IF \E i \in 1..Len(DocumentsOf(doc)) : ~deserializeInput(DocumentsOf(doc)[i]).ok
        THEN resp.status = 400 /\ calls = <<>> /\ answer = NoAnswer
        ELSE Len(calls) = 1 /\ Len(calls[1].documents) = Len(DocumentsOf(doc))

\* insertMany answered 400 after its first document was decoded and its second
\* was not
C25_Witness ==
    /\ pc = "sent" /\ invoked = "InsertMany"
    /\ Len(decodes) = 2 /\ decodes[1].ok /\ ~decodes[2].ok
    /\ resp.status = 400 /\ calls = <<>>

\* C26: a request the API key check rejects is answered 403 at once: no handler
\* and no storage call, nothing recorded by RecordHTTPRequest, nothing logged
C26_RejectedNotMeasured ==
    (/\ req # NoReq /\ pc # "apikey"
     /\ req.path \notin {"/api/health", "/metrics"}
     /\ req.apiKey # apiKeyEnv) =>
        /\ pc = "sent" /\ resp.status = 403
        /\ invoked = "none" /\ calls = <<>>
        /\ recorded = <<>> /\ ~logged

\* insertOne rejected for a wrong key
C26_Witness ==
    /\ pc = "sent" /\ resp.status = 403
    /\ req.path = "/api/insertOne" /\ req.apiKey = KeyOther

\* C27: with API_KEY unset or empty, a request for an operation without an
\* apiKey header (or with an empty one) passes the check and is answered by
\* its handler, and one with any other header is rejected with 403
C27_EmptyKeyPasses ==
    (/\ req # NoReq /\ pc # "apikey"
     /\ apiKeyEnv = <<>> /\ req.path \in OperationPaths) =>
        IF req.apiKey = <<>>
        THEN /\ pc \in {"metrics", "route", "storage", "after", "sent"}
             /\ pc \in {"storage", "after", "sent"} =>
                   invoked \in Handlers /\ (resp = NoResp \/ resp.status # 403)
        ELSE pc = "sent" /\ resp.status = 403 /\ invoked = "none"

\* insertOne served without a key while API_KEY is not set
C27_Witness ==
    /\ pc = "sent" /\ apiKeyEnv = <<>> /\ req.apiKey = <<>>
    /\ invoked = "InsertOne" /\ resp.status = 200

\* C28: the call of updateOne and of updateMany is an upsert iff the request
\* has upsert: true; an update that is not an upsert and matches nothing comes
\* back with nothing upserted, and the response has matchedCount 0 and
\* modifiedCount 0
C28_UpsertForwarded ==
    \A i \in 1..Len(calls) :
        calls[i].op \in {"UpdateOne", "UpdateMany"} =>
            /\ calls[i].upsert = (Lookup(req.body, "upsert") = JBool(TRUE))
            /\ (/\ ~calls[i].upsert /\ answer # NoAnswer /\ answer.kind = "ok"
                /\ answer.result.MatchedCount = 0) =>
                  /\ answer.result.UpsertedCount = 0
                  /\ answer.result.UpsertedID = BNull
                  /\ resp.status = 200
                  /\ GField(resp.body, "matchedCount") = GFloat64(FZero)
                  /\ GField(resp.body, "modifiedCount") = GFloat64(FZero)

\* updateMany without upsert answered after it matched nothing
C28_Witness ==
    /\ pc = "sent" /\ invoked = "UpdateMany"
    /\ answer # NoAnswer /\ answer.kind = "ok" /\ answer.result.MatchedCount = 0
    /\ Lookup(req.body, "upsert") = Absent
    /\ resp.status = 200

====
